---- MODULE Spec2Model ----
(***************************************************************************)
(* Model of backend/src/api/websocket-handler.ts (class WebsocketHandler): *)
(* the shared snapshot socketData with its serializedInitData, the         *)
(* per-client session kept on the socket object, the inbound frame handler *)
(* and the upstream event handlers with their suspension points.           *)
(*                                                                         *)
(* Conventions.  A JS string that a regular expression inspects is a       *)
(* sequence of one-character strings; a serialized JSON value is a TLA+    *)
(* string built by concatenation.  JS null in a session slot is the empty  *)
(* sequence: no validator accepts the empty string, so no slot can hold it *)
(* as a value.  JS undefined as a response value is the text the template  *)
(* literal of serializeResponse renders it as.                             *)
(***************************************************************************)
EXTENDS Integers, Sequences, FiniteSets, TLC

\* ------------------------------------------------------------------ bounds
MaxClients == 1
MaxEvents == 2
MaxFrames == 2
MaxInputs == 3
MaxBlocks == 2
\* config.MEMPOOL.MAX_TRACKED_ADDRESSES and INITIAL_BLOCKS_AMOUNT are set by
\* the deployment, not by this file; the model runs with small values.
MAX_TRACKED_ADDRESSES == 2
INITIAL_BLOCKS_AMOUNT == 1

\* --------------------------------------------------------- character data
Lower == {"a","b","c","d","e","f","g","h","i","j","k","l","m",
          "n","o","p","q","r","s","t","u","v","w","x","y","z"}
Upper == {"A","B","C","D","E","F","G","H","I","J","K","L","M",
          "N","O","P","Q","R","S","T","U","V","W","X","Y","Z"}
Digit == {"0","1","2","3","4","5","6","7","8","9"}
\* [a-fA-F0-9]
HexChar == Digit \cup {"a","b","c","d","e","f","A","B","C","D","E","F"}
\* [a-km-zA-HJ-NP-Z1-9]
Base58Char == (Lower \ {"l"}) \cup (Upper \ {"I","O"}) \cup (Digit \ {"0"})
\* [ac-hj-np-z02-9]
Bech32Lower == (Lower \ {"b","i","o"}) \cup (Digit \ {"1"})
\* [AC-HJ-NP-Z02-9]
Bech32Upper == (Upper \ {"B","I","O"}) \cup (Digit \ {"1"})

Rep(ch, n) == [i \in 1..n |-> ch]
AllIn(s, cs) == \A i \in 1..Len(s) : s[i] \in cs
Null == << >>

\* String.prototype.toLowerCase on the ASCII letters
LowerOf(ch) ==
  CASE ch = "A" -> "a" [] ch = "B" -> "b" [] ch = "C" -> "c" [] ch = "D" -> "d"
    [] ch = "E" -> "e" [] ch = "F" -> "f" [] ch = "G" -> "g" [] ch = "H" -> "h"
    [] ch = "I" -> "i" [] ch = "J" -> "j" [] ch = "K" -> "k" [] ch = "L" -> "l"
    [] ch = "M" -> "m" [] ch = "N" -> "n" [] ch = "O" -> "o" [] ch = "P" -> "p"
    [] ch = "Q" -> "q" [] ch = "R" -> "r" [] ch = "S" -> "s" [] ch = "T" -> "t"
    [] ch = "U" -> "u" [] ch = "V" -> "v" [] ch = "W" -> "w" [] ch = "X" -> "x"
    [] ch = "Y" -> "y" [] ch = "Z" -> "z" [] OTHER -> ch
toLowerCase(s) == [i \in 1..Len(s) |-> LowerOf(s[i])]

\* the characters of s as one TLA+ string
RECURSIVE StrOf(_)
StrOf(s) ==
  IF Len(s) = 0 THEN ""
  ELSE IF Len(s) = 1 THEN s[1]
  ELSE StrOf(SubSeq(s, 1, Len(s) \div 2)) \o StrOf(SubSeq(s, Len(s) \div 2 + 1, Len(s)))

\* Array.prototype.join
RECURSIVE Join(_, _)
Join(parts, sep) ==
  IF parts = << >> THEN ""
  ELSE IF Len(parts) = 1 THEN parts[1]
  ELSE parts[1] \o sep \o Join(Tail(parts), sep)

\* ------------------------------------------------------- address validator
\* /^[a-km-zA-HJ-NP-Z1-9]{26,35}$/ and /^[a-km-zA-HJ-NP-Z1-9]{80}$/
IsBase58Address(s) ==
  /\ AllIn(s, Base58Char)
  /\ (Len(s) \in 26..35 \/ Len(s) = 80)
\* /^<letters>{2,5}1<data>{8,100}$/
IsBech32With(s, letters, data) ==
  \E n \in 2..5 :
    /\ Len(s) >= n + 9
    /\ Len(s) <= n + 101
    /\ AllIn(SubSeq(s, 1, n), letters)
    /\ s[n + 1] = "1"
    /\ AllIn(SubSeq(s, n + 2, Len(s)), data)
\* /^04[a-fA-F0-9]{128}$/
IsUncompressedKey(s) ==
  Len(s) = 130 /\ s[1] = "0" /\ s[2] = "4" /\ AllIn(s, HexChar)
\* /^(02|03)[a-fA-F0-9]{64}$/
IsCompressedKey(s) ==
  Len(s) = 66 /\ s[1] = "0" /\ s[2] \in {"2", "3"} /\ AllIn(s, HexChar)
\* a P2PK script as testAddress returns it: 41 || key || ac or 21 || key || ac
\* over a lowercase public key
IsP2PKScript(s) ==
  /\ Len(s) \in {70, 134}
  /\ SubSeq(s, Len(s) - 1, Len(s)) = <<"a", "c">>
  /\ toLowerCase(s) = s
  /\ \/ SubSeq(s, 1, 2) = <<"4", "1">> /\ IsUncompressedKey(SubSeq(s, 3, Len(s) - 2))
     \/ SubSeq(s, 1, 2) = <<"2", "1">> /\ IsCompressedKey(SubSeq(s, 3, Len(s) - 2))
\* a first expression that also lets a P2PK script through
MatchesAddressOrScript(s) ==
  \/ IsBase58Address(s)
  \/ IsBech32With(s, Lower, Bech32Lower)
  \/ IsBech32With(s, Upper, Bech32Upper)
  \/ IsUncompressedKey(s)
  \/ IsCompressedKey(s)
  \/ IsP2PKScript(s)
\* the first expression of testAddress, anchored at both ends
MatchesAddress(s) ==
  \/ IsBase58Address(s)
  \/ IsBech32With(s, Lower, Bech32Lower)
  \/ IsBech32With(s, Upper, Bech32Upper)
  \/ IsUncompressedKey(s)
  \/ IsCompressedKey(s)
\* the second expression: its three alternatives are not grouped, so ^ binds
\* to the first only and $ to the last only
NeedsLowercase(s) ==
  \/ \E n \in 2..5 :
       /\ Len(s) >= n + 9
       /\ AllIn(SubSeq(s, 1, n), Upper)
       /\ s[n + 1] = "1"
       /\ AllIn(SubSeq(s, n + 2, n + 9), Bech32Upper)
  \/ \E i \in 1..Len(s) :
       i + 129 <= Len(s) /\ IsUncompressedKey(SubSeq(s, i, i + 129))
  \/ Len(s) >= 66 /\ IsCompressedKey(SubSeq(s, Len(s) - 65, Len(s)))
\* a validator that returns what it was given
testAddressRaw(address) == IF MatchesAddress(address) THEN address ELSE Null
\* testAddress: the canonical form, or Null for false
testAddress(address) ==
  IF MatchesAddress(address)
  THEN LET a == IF NeedsLowercase(address) THEN toLowerCase(address) ELSE address
       IN  IF IsUncompressedKey(a) THEN <<"4", "1">> \o a \o <<"a", "c">>
           ELSE IF IsCompressedKey(a) THEN <<"2", "1">> \o a \o <<"a", "c">>
           ELSE a
  ELSE Null

\* ------------------------------------------------------------- JS values
\* A JS value is a tagged record; JSON.stringify is computed from it.
JNum(n) == [t |-> "num", v |-> n]
JBool(b) == [t |-> "bool", v |-> b]
JStr(chars) == [t |-> "str", v |-> chars]
JArr(items) == [t |-> "arr", v |-> items]
JObj(pairs) == [t |-> "obj", v |-> pairs]
JNull == [t |-> "null"]
JUndef == [t |-> "undef"]
\* what a template literal renders undefined as; no JSON text equals it
Undefined == "undefined"
\* value != null
NotNullish(val) == val.t \notin {"null", "undef"}

RECURSIVE Stringify(_)
RECURSIVE StringifyItems(_)
RECURSIVE StringifyPairs(_)
\* JSON.stringify: an undefined array element prints as null and an undefined
\* property is left out; JSON.stringify(undefined) is undefined itself
Stringify(val) ==
  CASE val.t = "num" -> ToString(val.v)
    [] val.t = "bool" -> (IF val.v THEN "true" ELSE "false")
    [] val.t = "str" -> "\"" \o StrOf(val.v) \o "\""
    [] val.t = "arr" -> "[" \o Join(StringifyItems(val.v), ",") \o "]"
    [] val.t = "obj" -> "{" \o Join(StringifyPairs(val.v), ",") \o "}"
    [] val.t = "null" -> "null"
    [] OTHER -> Undefined
StringifyItems(items) ==
  IF items = << >> THEN << >>
  ELSE <<(IF Head(items).t = "undef" THEN "null" ELSE Stringify(Head(items)))>>
         \o StringifyItems(Tail(items))
StringifyPairs(pairs) ==
  IF pairs = << >> THEN << >>
  ELSE (IF Head(pairs)[2].t = "undef" THEN << >>
        ELSE <<"\"" \o Head(pairs)[1] \o "\":" \o Stringify(Head(pairs)[2])>>)
         \o StringifyPairs(Tail(pairs))

\* ------------------------------------------------------------ JS objects
\* An object with string keys is the sequence of its <<key, value>> pairs in
\* insertion order, the order Object.keys reports.
ObjKeys(o) == [i \in 1..Len(o) |-> o[i][1]]
ObjHas(o, k) == \E i \in 1..Len(o) : o[i][1] = k
\* o[k]; Undefined when the key is absent (for objects of strings)
ObjGet(o, k) ==
  IF ObjHas(o, k) THEN o[CHOOSE i \in 1..Len(o) : o[i][1] = k][2] ELSE Undefined
\* o[k] = v: an existing key keeps its place, a new key goes last
ObjSet(o, k, v) ==
  IF ObjHas(o, k)
  THEN [i \in 1..Len(o) |-> IF o[i][1] = k THEN <<k, v>> ELSE o[i]]
  ELSE Append(o, <<k, v>>)
\* delete o[k]
ObjDelete(o, k) == SelectSeq(o, LAMBDA p : p[1] # k)
\* if (cond) { o[k] = v; }
PutIf(cond, o, k, v) == IF cond THEN ObjSet(o, k, v) ELSE o
\* !value for a string or undefined
Falsy(str) == str = Undefined \/ str = ""
\* !obj[k]?.length for a string-valued object
NoLength(o, k) == ~ObjHas(o, k) \/ Len(ObjGet(o, k)) = 0

\* serializeResponse, and the same expression in updateSocketDataFields
serializeResponse(response) ==
  "{" \o Join([i \in 1..Len(response) |->
                 "\"" \o response[i][1] \o "\": " \o response[i][2]], ", ") \o "}"

\* ------------------------------------------------------------------ state
VARIABLES
  wss,                  \* TRUE once setWebsocketServer has bound the server
  config,               \* config.MEMPOOL.BACKEND and ADVANCED_GBT_MEMPOOL
  extraInitProperties,  \* this.extraInitProperties
  socketData,           \* this.socketData, the shared snapshot S
  serializedInitData,   \* this.serializedInitData, the initial-snapshot string
  clients,              \* the session fields kept on each socket object
  env,                  \* what the collaborators currently report
  handlers,             \* event handlers suspended at an await
  loops,                \* per-client callbacks of a mempool delta at an await
  frames,               \* frame handlers suspended at the await of track-tx
  sent,                 \* per client, the messages the last step handed to client.send
  delivered,            \* per client, the highest event number sent to it before that
  lastFrame,            \* the frame the last step worked on, if it worked on one
  thrown,               \* the event handler that threw in the last step ("": none)
  nextEv,               \* number of the next upstream event
  nFrames,              \* frames received so far
  lastWrite,            \* history: the event whose handler last wrote S (0: none)
  pending,              \* history: S keys last written by an event still in progress
  sAtRest               \* history: S without the writes of events still in progress

vars == <<wss, config, extraInitProperties, socketData, serializedInitData,
          clients, env, handlers, loops, frames, sent, delivered, lastFrame,
          thrown, nextEv, nFrames, lastWrite, pending, sAtRest>>

ClientIds == 1..MaxClients

\* valid 'want' subscriptions
wantable == <<"blocks", "mempool-blocks", "live-2h-chart", "stats", "tomahawk">>
Wantable == {wantable[i] : i \in 1..Len(wantable)}

\* ----------------------------------------------------------- transactions
\* Addresses and keys as clients write them.
Addr1 == <<"b", "c", "1", "q">> \o Rep("a", 8)
Addr1Upper == <<"B", "C", "1", "Q">> \o Rep("A", 8)
Addr2 == <<"1">> \o Rep("A", 25)
Addr3 == <<"3">> \o Rep("B", 25)
BadAddr == <<"x", "y", "z">>
CompressedKey == <<"0", "2">> \o Rep("A", 64)
UncompressedKey == <<"0", "4">> \o Rep("B", 128)
\* what testAddress returns for CompressedKey
CompressedKeyScript == <<"2", "1", "0", "2">> \o Rep("a", 64) \o <<"a", "c">>

\* The transactions the mempool engine and the block store may report. A and
\* B both spend output 0 of the confirmed transaction P, which paid Addr3; A
\* pays Addr1, B pays Addr2 and issues the asset AssetId. B replaces A when
\* one event adds B and deletes A.
TxidA == Rep("a", 64)
TxidB == Rep("b", 64)
TxidP == Rep("c", 64)
AssetId == Rep("d", 64)
SpkP == <<"0", "0", "1", "4", "c", "c">>
Spk1 == <<"0", "0", "1", "4", "a", "a">>
Spk2 == <<"0", "0", "1", "4", "b", "b">>
TxNames == {"A", "B"}
TxidOf(name) == IF name = "A" THEN TxidA ELSE TxidB
\* vin[0].txid and vin[0].vout of both
VinTxid(name) == TxidP
\* the scriptpubkey_address and scriptpubkey of vin[0].prevout and of vout[0]
TxKeys(name) ==
  {Addr3, SpkP} \cup (IF name = "A" THEN {Addr1, Spk1} ELSE {Addr2, Spk2})
\* the asset ids of the issuances and outputs of the transaction
TxAssets(name) == IF name = "B" THEN {AssetId} ELSE {}
\* names in a fixed order, as an array
RECURSIVE SeqOfNames(_)
SeqOfNames(names) ==
  IF names = {} THEN << >>
  ELSE LET n == CHOOSE x \in names : \A y \in names : x = "A" \/ y # "A"
       IN  <<n>> \o SeqOfNames(names \ {n})
NamesOf(txs) == {txs[i] : i \in 1..Len(txs)}

\* ---------------------------------------------------------- collaborators
\* What the collaborators report in the environment e: env holds the block
\* store, the mempool, the transactions the template builder has placed, the
\* replacements the RBF cache knows, the prices and the loading indicators.
\* blocks.getBlocks(): a block is a record of its height, id and timestamp
BlockJs(b) == JObj(<< <<"height", JNum(b.height)>>, <<"id", JNum(b.id)>> >>)
BlocksJs(bs) == JArr([i \in 1..Len(bs) |-> BlockJs(bs[i])])
\* Array.prototype.slice(-n)
SliceLast(seq, n) ==
  IF Len(seq) <= n THEN seq ELSE SubSeq(seq, Len(seq) - n + 1, Len(seq))
\* difficultyAdjustment.getDifficultyAdjustment(), then
\* da?.previousTime ? da : undefined
DaJs(e) == JObj(<< <<"previousTime", JNum(e.daPreviousTime)>> >>)
HasPreviousTime(e) == e.daPreviousTime # 0
DaOrUndefined(e) == IF HasPreviousTime(e) THEN DaJs(e) ELSE JUndef
\* memPool.getMempoolInfo(), getVBytesPerSecond(), getLatestTransactions()
MempoolInfoJs(e) == JObj(<< <<"size", JNum(Cardinality(e.mempool))>> >>)
VBytesPerSecondJs(e) == JNum(10 * Cardinality(e.mempool))
LatestTransactionsJs(e) ==
  LET names == SeqOfNames(e.mempool)
  IN  JArr([i \in 1..Len(names) |-> JObj(<< <<"txid", JStr(TxidOf(names[i]))>> >>)])
\* mempoolBlocks.getMempoolBlocks(): one projected block while the template
\* builder has placed a transaction
MempoolBlocksJs(e) ==
  IF e.template = {} THEN JArr(<< >>)
  ELSE JArr(<<JObj(<< <<"nTx", JNum(Cardinality(e.template))>> >>)>>)
\* feeApi.getRecommendedFee()
RecommendedFeeJs(e) == JObj(<< <<"fastestFee", JNum(1 + Cardinality(e.template))>> >>)
\* priceUpdater.getLatestPrices(), backendInfo.getBackendInfo(),
\* loadingIndicators.getLoadingIndicators()
PricesJs(p) == JObj(<< <<"USD", JNum(p)>> >>)
BackendInfoJs == JObj(<< <<"hostname", JStr(<<"h">>)>> >>)
IndicatorsJs(n) == IF n = 0 THEN JObj(<< >>) ELSE JObj(<< <<"mempool", JNum(n)>> >>)

\* the names of the mempool transactions with this txid: memPool.getMempool()[txid]
MempoolNames(e, txid) == {n \in e.mempool : TxidOf(n) = txid}
\* rbfCache.getReplacedBy(txid): the replacing txid, or Null
getReplacedBy(e, txid) ==
  IF \E n \in DOMAIN e.replacedBy : TxidOf(n) = txid
  THEN TxidOf(e.replacedBy[CHOOSE n \in DOMAIN e.replacedBy : TxidOf(n) = txid])
  ELSE Null
\* a mempool transaction as the mempool engine holds it; position is set once
\* the template builder has placed it
HasPosition(e, name) == name \in e.template
PositionJs(name) == JObj(<< <<"block", JNum(0)>>, <<"vsize", JNum(100)>> >>)
TxJs(e, name) ==
  JObj(<< <<"txid", JStr(TxidOf(name))>>,
          <<"position", IF HasPosition(e, name) THEN PositionJs(name) ELSE JUndef>> >>)
TxsJs(e, txs) == JArr([i \in 1..Len(txs) |-> TxJs(e, txs[i])])
\* transactionUtils.$getMempoolTransactionExtended(txid, true), when it resolves
FullTxJs(txid) == JObj(<< <<"txid", JStr(txid)>>, <<"prevouts", JBool(TRUE)>> >>)
\* mempoolBlocks.getMempoolBlocksWithTransactions(): one projected block
\* holding the transactions the template builder has placed
getMempoolBlocksWithTransactions(e) ==
  IF e.template = {} THEN << >> ELSE <<SeqOfNames(e.template)>>
\* mempoolBlocks.compressTx
compressTx(name) == JArr(<<JStr(TxidOf(name))>>)
\* (mBlocksWithTransactions[index]?.transactions || []).map(compressTx)
BlockTransactionsJs(e, index) ==
  LET mBlocks == getMempoolBlocksWithTransactions(e)
      txs == IF index + 1 \in 1..Len(mBlocks) THEN mBlocks[index + 1] ELSE << >>
  IN  JArr([i \in 1..Len(txs) |-> compressTx(txs[i])])
\* mempoolBlocks.getMempoolBlockDeltas(): per projected block, what the last
\* template update added to it and removed from it
DeltaJs(e) ==
  JObj(<< <<"added", JArr([i \in 1..Len(SeqOfNames(e.delta.added)) |->
                             compressTx(SeqOfNames(e.delta.added)[i])])>>,
          <<"removed", JArr([i \in 1..Len(SeqOfNames(e.delta.removed)) |->
                             JStr(TxidOf(SeqOfNames(e.delta.removed)[i]))])>> >>)
\* mBlockDeltas[index] is there
HasDelta(e, index) == index + 1 \in 1..Len(getMempoolBlocksWithTransactions(e))
\* the template builder runs over the mempool: updateMempoolBlocks,
\* $updateBlockTemplates, $makeBlockTemplates
UpdateTemplates(e) ==
  [e EXCEPT !.template = e.mempool,
            !.delta = [added |-> e.mempool \ e.template,
                       removed |-> e.template \ e.mempool]]
\* rbfCache.getRbfTrees(onlyFullRbf): a tree per replaced transaction; the
\* replacements the model knows signal opt-in, so none is a full-RBF tree
RbfTreeJs(e, replaced) ==
  JObj(<< <<"tx", JStr(TxidOf(e.replacedBy[replaced]))>>,
          <<"replaces", JStr(TxidOf(replaced))>> >>)
getRbfTrees(e, onlyFullRbf) ==
  LET replaced == SeqOfNames(DOMAIN e.replacedBy)
  IN  IF onlyFullRbf THEN JArr(<< >>)
      ELSE JArr([i \in 1..Len(replaced) |-> RbfTreeJs(e, replaced[i])])
\* rbfCache.getLatestRbfSummary()
getLatestRbfSummary(e) ==
  LET replaced == SeqOfNames(DOMAIN e.replacedBy)
  IN  JArr([i \in 1..Len(replaced) |->
             JObj(<< <<"txid", JStr(TxidOf(e.replacedBy[replaced[i]]))>> >>)])
\* memPool.isInSync()
isInSync(e) == e.inSync
\* makeAddressCache(transactions)[key]: the transactions that touch the key
makeAddressCache(transactions, key) ==
  SelectSeq(transactions, LAMBDA n : key \in TxKeys(n))

\* --------------------------------------------------------- shared snapshot
RECURSIVE ApplyFields(_, _)
\* the loop of updateSocketDataFields over Object.keys(data)
ApplyFields(sd, data) ==
  IF data = << >> THEN sd
  ELSE LET property == Head(data)[1]
           value == Head(data)[2]
       IN  ApplyFields(IF NotNullish(value)
                       THEN ObjSet(sd, property, Stringify(value))
                       ELSE ObjDelete(sd, property),
                       Tail(data))
\* an updateSocketDataFields that leaves serializedInitData one write behind
updateSocketDataFieldsStale(sd, data) ==
  [socketData |-> ApplyFields(sd, data), serializedInitData |-> serializeResponse(sd)]
\* updateSocketDataFields: the new socketData and the serializedInitData built from it
updateSocketDataFields(sd, data) ==
  LET next == ApplyFields(sd, data)
  IN  [socketData |-> next, serializedInitData |-> serializeResponse(next)]
\* the fields updateSocketData reads from the collaborators
SocketDataFromCollaborators(e) ==
  << <<"mempoolInfo", MempoolInfoJs(e)>>,
     <<"vBytesPerSecond", VBytesPerSecondJs(e)>>,
     <<"blocks", BlocksJs(SliceLast(e.chain, INITIAL_BLOCKS_AMOUNT))>>,
     <<"conversions", PricesJs(e.prices)>>,
     <<"mempool-blocks", MempoolBlocksJs(e)>>,
     <<"transactions", LatestTransactionsJs(e)>>,
     <<"backendInfo", BackendInfoJs>>,
     <<"loadingIndicators", IndicatorsJs(e.loadingIndicators)>>,
     <<"da", DaOrUndefined(e)>>,
     <<"fees", RecommendedFeeJs(e)>> >>
updateSocketData(sd) == updateSocketDataFields(sd, SocketDataFromCollaborators(env))
\* getSerializedInitData
getSerializedInitData == serializedInitData

\* ---------------------------------------------------------------- session
\* The fields the handlers keep on the socket object. A slot that is null or
\* was never set is Null: both are falsy wherever the code reads them. A slot
\* that holds an object, an array or a number holds the one-element sequence
\* of it, so that {} and [] and 0 differ from null.
NewSession ==
  [readyState |-> "OPEN",
   want |-> [w \in Wantable |-> FALSE],
   wants |-> FALSE,
   trackTx |-> Null,
   trackMempoolTx |-> Null,
   trackAddress |-> Null,
   trackAddresses |-> Null,
   trackScriptpubkeys |-> Null,
   trackAsset |-> Null,
   trackMempoolBlock |-> Null,
   trackRbf |-> "off",
   trackRbfSummary |-> FALSE,
   trackDonation |-> Null,
   trackBisqMarket |-> Null]
NoSession == [NewSession EXCEPT !.readyState = "NONE"]

\* ----------------------------------------------------------------- frames
\* A parsed frame is a function from the keys it carries to their values.
Has(f, k) == k \in DOMAIN f
InSeq(x, seq) == \E i \in 1..Len(seq) : seq[i] = x
\* parsedMessage.action === 'want' && Array.isArray(parsedMessage.data)
\* a key the frame carries with a truthy value (the boolean keys)
Truthy(f, k) == Has(f, k) /\ f[k]
\* a key the frame carries with a truthy string value: '' is falsy
Given(f, k) == Has(f, k) /\ f[k] # << >>
IsWant(f) == Has(f, "action") /\ f["action"] = "want" /\ Has(f, "data")
\* parsedMessage.action === 'init'
IsInit(f) == Has(f, "action") /\ f["action"] = "init"

\* a wantNow that forgets which classes were on
wantNowListed(cl, f) ==
  IF IsWant(f) THEN {sub \in Wantable : InSeq(sub, f["data"])} ELSE {}
\* the classes newly turned on by this frame (wantNow)
wantNow(cl, f) ==
  IF IsWant(f)
  THEN {sub \in Wantable : InSeq(sub, f["data"]) /\ ~cl.want[sub]}
  ELSE {}
\* a want step that turns classes on and never off
WantStepSticky(cl, f) ==
  IF IsWant(f)
  THEN [cl EXCEPT !.want = [sub \in Wantable |-> InSeq(sub, f["data"]) \/ cl.want[sub]],
                  !.wants = TRUE]
  ELSE cl
\* a want step that starts the session afresh
WantStepResets(cl, f) ==
  IF IsWant(f)
  THEN [NewSession EXCEPT !.want = [sub \in Wantable |-> InSeq(sub, f["data"])],
                          !.wants = TRUE]
  ELSE cl
\* client[key] = wants, for every wantable class
WantStep(cl, f) ==
  IF IsWant(f)
  THEN [cl EXCEPT !.want = [sub \in Wantable |-> InSeq(sub, f["data"])],
                  !.wants = TRUE]
  ELSE cl

\* bitcoinApi.getHealthStatus()
getHealthStatus == JArr(<< >>)

\* send initial data when a client first starts a subscription
SeedResponses(now, f, sd) ==
  LET r1 == IF "blocks" \in now \/ Truthy(f, "refresh-blocks")
            THEN ObjSet(<< >>, "blocks", ObjGet(sd, "blocks")) ELSE << >>
      r2 == IF "mempool-blocks" \in now
            THEN ObjSet(r1, "mempool-blocks", ObjGet(sd, "mempool-blocks")) ELSE r1
      r3 == IF "stats" \in now
            THEN ObjSet(ObjSet(ObjSet(ObjSet(r2,
                   "mempoolInfo", ObjGet(sd, "mempoolInfo")),
                   "vBytesPerSecond", ObjGet(sd, "vBytesPerSecond")),
                   "fees", ObjGet(sd, "fees")),
                   "da", ObjGet(sd, "da"))
            ELSE r2
  IN  IF "tomahawk" \in now
      THEN ObjSet(r3, "tomahawk", Stringify(getHealthStatus)) ELSE r3

\* a txid test that lets shorter values through
IsTxidLoose(s) == Len(s) <= 64 /\ AllIn(s, HexChar)
\* /^[a-fA-F0-9]{64}$/
IsTxid(s) == Len(s) = 64 /\ AllIn(s, HexChar)
\* a track-tx that keeps the txid in the slot when the RBF cache names a
\* replacement
TrackTxStepKeeps(cl, resp, f) ==
  IF ~Given(f, "track-tx") THEN [cl |-> cl, resp |-> resp, await |-> "none"]
  ELSE IF ~IsTxid(f["track-tx"])
  THEN [cl |-> [cl EXCEPT !.trackTx = Null], resp |-> resp, await |-> "none"]
  ELSE LET trackTxid == f["track-tx"]
           cl1 == [cl EXCEPT !.trackTx = trackTxid]
       IN  IF ~Truthy(f, "watch-mempool")
           THEN [cl |-> cl1, resp |-> resp, await |-> "none"]
           ELSE IF getReplacedBy(env, trackTxid) # Null
           THEN [cl |-> cl1,
                 resp |-> ObjSet(resp, "txReplaced",
                            Stringify(JObj(<< <<"txid", JStr(getReplacedBy(env, trackTxid))>> >>))),
                 await |-> "none"]
           ELSE IF MempoolNames(env, trackTxid) # {}
           THEN IF config.BACKEND = "esplora"
                THEN [cl |-> cl1,
                      resp |-> ObjSet(resp, "tx",
                                 Stringify(TxJs(env, CHOOSE n \in MempoolNames(env, trackTxid) : TRUE))),
                      await |-> "none"]
                ELSE [cl |-> cl1, resp |-> resp, await |-> "known"]
           ELSE [cl |-> cl1, resp |-> resp, await |-> "unknown"]
\* a track-tx that clears track-mempool-tx along with track-tx
TrackTxStepCoupled(cl, resp, f) ==
  IF ~Given(f, "track-tx") THEN [cl |-> cl, resp |-> resp, await |-> "none"]
  ELSE IF ~IsTxid(f["track-tx"])
  THEN [cl |-> [cl EXCEPT !.trackTx = Null, !.trackMempoolTx = Null],
        resp |-> resp, await |-> "none"]
  ELSE LET trackTxid == f["track-tx"]
           cl1 == [cl EXCEPT !.trackTx = trackTxid]
       IN  IF ~Truthy(f, "watch-mempool")
           THEN [cl |-> cl1, resp |-> resp, await |-> "none"]
           ELSE IF getReplacedBy(env, trackTxid) # Null
           THEN [cl |-> [cl1 EXCEPT !.trackTx = Null],
                 resp |-> ObjSet(resp, "txReplaced",
                            Stringify(JObj(<< <<"txid", JStr(getReplacedBy(env, trackTxid))>> >>))),
                 await |-> "none"]
           ELSE IF MempoolNames(env, trackTxid) # {}
           THEN IF config.BACKEND = "esplora"
                THEN [cl |-> cl1,
                      resp |-> ObjSet(resp, "tx",
                                 Stringify(TxJs(env, CHOOSE n \in MempoolNames(env, trackTxid) : TRUE))),
                      await |-> "none"]
                ELSE [cl |-> cl1, resp |-> resp, await |-> "known"]
           ELSE [cl |-> cl1, resp |-> resp, await |-> "unknown"]
\* track-tx up to its first await: the session, the response, and the await
\* the handler stops at ("none" when it runs on)
TrackTxStep(cl, resp, f) ==
  IF ~Given(f, "track-tx") THEN [cl |-> cl, resp |-> resp, await |-> "none"]
  ELSE IF ~IsTxid(f["track-tx"])
  THEN [cl |-> [cl EXCEPT !.trackTx = Null], resp |-> resp, await |-> "none"]
  ELSE LET trackTxid == f["track-tx"]
           cl1 == [cl EXCEPT !.trackTx = trackTxid]
       IN  IF ~Truthy(f, "watch-mempool")
           THEN [cl |-> cl1, resp |-> resp, await |-> "none"]
           ELSE IF getReplacedBy(env, trackTxid) # Null
           THEN [cl |-> [cl1 EXCEPT !.trackTx = Null],
                 resp |-> ObjSet(resp, "txReplaced",
                            Stringify(JObj(<< <<"txid", JStr(getReplacedBy(env, trackTxid))>> >>))),
                 await |-> "none"]
           ELSE IF MempoolNames(env, trackTxid) # {}
           THEN IF config.BACKEND = "esplora"
                THEN [cl |-> cl1,
                      resp |-> ObjSet(resp, "tx",
                                 Stringify(TxJs(env, CHOOSE n \in MempoolNames(env, trackTxid) : TRUE))),
                      await |-> "none"]
                ELSE [cl |-> cl1, resp |-> resp, await |-> "known"]
           ELSE [cl |-> cl1, resp |-> resp, await |-> "unknown"]

\* a continuation that does not note the txid when the lookup threw
AfterLookupForgets(cl, resp, f, await, ok) ==
  IF ok
  THEN [cl |-> cl,
        resp |-> ObjSet(resp, "tx",
                   Stringify(FullTxJs(f["track-tx"])))]
  ELSE [cl |-> cl, resp |-> resp]
\* the continuation of the await in track-tx: the lookup resolved (ok) or threw
AfterLookup(cl, resp, f, await, ok) ==
  IF ok
  THEN [cl |-> cl,
        resp |-> ObjSet(resp, "tx",
                   Stringify(FullTxJs(f["track-tx"])))]
  ELSE IF await = "unknown"
  THEN [cl |-> [cl EXCEPT !.trackMempoolTx = f["track-tx"]], resp |-> resp]
  ELSE [cl |-> cl, resp |-> resp]

\* a position lookup made only when the frame asks to watch the mempool
TxPositionStepWatched(cl, resp, f) ==
  IF Truthy(f, "watch-mempool") /\ Has(f, "track-tx") /\ IsTxid(f["track-tx"])
     /\ \E n \in MempoolNames(env, f["track-tx"]) : HasPosition(env, n)
  THEN ObjSet(resp, "txPosition",
         Stringify(JObj(<< <<"txid", JStr(f["track-tx"])>>,
                           <<"position", PositionJs(CHOOSE n \in MempoolNames(env, f["track-tx"]) : TRUE)>> >>)))
  ELSE resp
\* const tx = memPool.getMempool()[trackTxid]; if (tx && tx.position) ...
TxPositionStep(cl, resp, f) ==
  IF Has(f, "track-tx") /\ IsTxid(f["track-tx"])
     /\ \E n \in MempoolNames(env, f["track-tx"]) : HasPosition(env, n)
  THEN ObjSet(resp, "txPosition",
         Stringify(JObj(<< <<"txid", JStr(f["track-tx"])>>,
                           <<"position", PositionJs(CHOOSE n \in MempoolNames(env, f["track-tx"]) : TRUE)>> >>)))
  ELSE resp

\* track-address
TrackAddressStep(cl, f) ==
  IF Given(f, "track-address")
  THEN [cl EXCEPT !.trackAddress = testAddress(f["track-address"])]
  ELSE cl

RECURSIVE BuildAddressMap(_, _)
\* addressMap[address] = validAddress for every entry the validator accepts
BuildAddressMap(addresses, addressMap) ==
  IF addresses = << >> THEN addressMap
  ELSE LET validAddress == testAddress(Head(addresses))
       IN  BuildAddressMap(Tail(addresses),
             IF validAddress # Null
             THEN ObjSet(addressMap, Head(addresses), validAddress)
             ELSE addressMap)
\* limit checks that refuse an array of exactly the limit
TooManyAddressesStrict(addressMap) == Len(addressMap) >= MAX_TRACKED_ADDRESSES
\* limit checks that let one entry more through
TooManyAddressesLax(addressMap) == Len(addressMap) > MAX_TRACKED_ADDRESSES + 1
TooManySpksLax(spks) == Len(spks) > MAX_TRACKED_ADDRESSES + 1
\* Object.keys(addressMap).length > config.MEMPOOL.MAX_TRACKED_ADDRESSES
TooManyAddresses(addressMap) == Len(addressMap) > MAX_TRACKED_ADDRESSES
AddressesError ==
  "\"too many addresses requested, this connection supports tracking a maximum of "
    \o ToString(MAX_TRACKED_ADDRESSES) \o " addresses\""
\* track-addresses: the session and the response
TrackAddressesStep(cl, resp, f) ==
  IF ~Has(f, "track-addresses") THEN [cl |-> cl, resp |-> resp]
  ELSE LET addressMap == BuildAddressMap(f["track-addresses"], << >>)
       IN  IF TooManyAddresses(addressMap)
           THEN [cl |-> [cl EXCEPT !.trackAddresses = Null],
                 resp |-> ObjSet(resp, "track-addresses-error", AddressesError)]
           ELSE IF Len(addressMap) > 0
           THEN [cl |-> [cl EXCEPT !.trackAddresses = <<addressMap>>], resp |-> resp]
           ELSE [cl |-> [cl EXCEPT !.trackAddresses = Null], resp |-> resp]

\* /^[a-fA-F0-9]+$/
IsHex(s) == Len(s) > 0 /\ AllIn(s, HexChar)
RECURSIVE BuildSpks(_)
\* spks.push(spk.toLowerCase()) for every hexadecimal entry
BuildSpks(entries) ==
  IF entries = << >> THEN << >>
  ELSE (IF IsHex(Head(entries)) THEN <<toLowerCase(Head(entries))>> ELSE << >>)
         \o BuildSpks(Tail(entries))
\* spks.length > config.MEMPOOL.MAX_TRACKED_ADDRESSES
TooManySpks(spks) == Len(spks) > MAX_TRACKED_ADDRESSES
SpksError ==
  "\"too many scriptpubkeys requested, this connection supports tracking a maximum of "
    \o ToString(MAX_TRACKED_ADDRESSES) \o " scriptpubkeys\""
\* track-scriptpubkeys: the session and the response
TrackScriptpubkeysStep(cl, resp, f) ==
  IF ~Has(f, "track-scriptpubkeys") THEN [cl |-> cl, resp |-> resp]
  ELSE LET spks == BuildSpks(f["track-scriptpubkeys"])
       IN  IF TooManySpks(spks)
           THEN [cl |-> [cl EXCEPT !.trackScriptpubkeys = Null],
                 resp |-> ObjSet(resp, "track-scriptpubkeys-error", SpksError)]
           ELSE IF Len(spks) > 0
           THEN [cl |-> [cl EXCEPT !.trackScriptpubkeys = <<spks>>], resp |-> resp]
           ELSE [cl |-> [cl EXCEPT !.trackScriptpubkeys = Null], resp |-> resp]

\* TrackAssetStep that clears the slot of a frame without the key
TrackAssetStepClears(cl, f) ==
  [cl EXCEPT !.trackAsset =
     IF Given(f, "track-asset") /\ IsTxid(f["track-asset"]) THEN f["track-asset"] ELSE Null]
\* track-asset
TrackAssetStep(cl, f) ==
  IF Given(f, "track-asset")
  THEN [cl EXCEPT !.trackAsset = IF IsTxid(f["track-asset"]) THEN f["track-asset"] ELSE Null]
  ELSE cl

\* an index test that refuses 0
IsBlockIndexPositive(val) == val.t = "num" /\ val.v > 0
\* Number.isInteger(v) && v >= 0; an integer is a "num" value
IsBlockIndex(val) == val.t = "num" /\ val.v >= 0
\* track-mempool-block: the session and the response
TrackMempoolBlockStep(cl, resp, f) ==
  IF ~Has(f, "track-mempool-block") THEN [cl |-> cl, resp |-> resp]
  ELSE IF IsBlockIndex(f["track-mempool-block"])
  THEN LET index == f["track-mempool-block"].v
       IN  [cl |-> [cl EXCEPT !.trackMempoolBlock = <<index>>],
            resp |-> ObjSet(resp, "projected-block-transactions",
                       Stringify(JObj(<< <<"index", JNum(index)>>,
                                         <<"blockTransactions", BlockTransactionsJs(env, index)>> >>)))]
  ELSE [cl |-> [cl EXCEPT !.trackMempoolBlock = Null], resp |-> resp]

\* TrackRbfStep that stores whatever the frame carries
TrackRbfStepAny(cl, resp, f) ==
  IF ~Has(f, "track-rbf") THEN [cl |-> cl, resp |-> resp]
  ELSE [cl |-> [cl EXCEPT !.trackRbf = f["track-rbf"]],
        resp |-> ObjSet(resp, "rbfLatest", Stringify(getRbfTrees(env, f["track-rbf"] = "fullRbf")))]
\* track-rbf: the session and the response
TrackRbfStep(cl, resp, f) ==
  IF ~Has(f, "track-rbf") THEN [cl |-> cl, resp |-> resp]
  ELSE IF f["track-rbf"] \in {"all", "fullRbf"}
  THEN [cl |-> [cl EXCEPT !.trackRbf = f["track-rbf"]],
        resp |-> ObjSet(resp, "rbfLatest", Stringify(getRbfTrees(env, f["track-rbf"] = "fullRbf")))]
  ELSE [cl |-> [cl EXCEPT !.trackRbf = "off"], resp |-> resp]

\* track-rbf-summary: the session and the response
TrackRbfSummaryStep(cl, resp, f, sd) ==
  IF ~Has(f, "track-rbf-summary") THEN [cl |-> cl, resp |-> resp]
  ELSE IF f["track-rbf-summary"]
  THEN [cl |-> [cl EXCEPT !.trackRbfSummary = TRUE],
        resp |-> IF ObjHas(sd, "rbfSummary")
                 THEN ObjSet(resp, "rbfLatestSummary", ObjGet(sd, "rbfSummary"))
                 ELSE resp]
  ELSE [cl |-> [cl EXCEPT !.trackRbfSummary = FALSE], resp |-> resp]

\* action init: whether socketData is refreshed from the collaborators first
InitNeedsRefresh(sd) ==
  \/ NoLength(sd, "blocks")
  \/ Falsy(ObjGet(sd, "da"))
  \/ Falsy(ObjGet(sd, "backendInfo"))
  \/ Falsy(ObjGet(sd, "conversions"))
\* action init: the snapshot after the refresh, and whether the handler returns
\* without sending (the blocks gate)
InitStep(sd, blob) ==
  LET r == IF InitNeedsRefresh(sd) THEN updateSocketData(sd)
           ELSE [socketData |-> sd, serializedInitData |-> blob]
  IN  [socketData |-> r.socketData,
       serializedInitData |-> r.serializedInitData,
       wrote |-> InitNeedsRefresh(sd),
       returned |-> NoLength(r.socketData, "blocks")]

\* PingStep that answers every frame with an action
PingStepAnyAction(resp, f) ==
  IF Has(f, "action") THEN ObjSet(resp, "pong", Stringify(JBool(TRUE))) ELSE resp
\* action ping
PingStep(resp, f) ==
  IF Has(f, "action") /\ f["action"] = "ping"
  THEN ObjSet(resp, "pong", Stringify(JBool(TRUE))) ELSE resp
\* track-donation: stored when 22 characters long, else left as it was
TrackDonationStep(cl, f) ==
  IF Given(f, "track-donation") /\ Len(f["track-donation"]) = 22
  THEN [cl EXCEPT !.trackDonation = f["track-donation"]] ELSE cl
\* /^[a-z]{3}_[a-z]{3}$/
IsBisqMarket(s) ==
  Len(s) = 7 /\ s[4] = "_" /\ AllIn(SubSeq(s, 1, 3), Lower) /\ AllIn(SubSeq(s, 5, 7), Lower)
\* track-bisq-market
TrackBisqMarketStep(cl, f) ==
  IF Given(f, "track-bisq-market")
  THEN [cl EXCEPT !.trackBisqMarket =
          IF IsBisqMarket(f["track-bisq-market"]) THEN f["track-bisq-market"] ELSE Null]
  ELSE cl

\* the message handler up to the await of track-tx
BeginFrame(cl, f) ==
  TrackTxStep(WantStep(cl, f), SeedResponses(wantNow(cl, f), f, socketData), f)

\* the message handler from the txPosition lookup to its end: the session, the
\* snapshot, whether serializedInitData is sent, and the response to send
\* the tracking steps that follow one another, each on the session and the
\* response the step before it left (r)
ThenScriptpubkeys(r, f) == TrackScriptpubkeysStep(r.cl, r.resp, f)
ThenMempoolBlock(r, f) == TrackMempoolBlockStep(TrackAssetStep(r.cl, f), r.resp, f)
ThenRbf(r, f) == TrackRbfStep(r.cl, r.resp, f)
ThenRbfSummary(r, f) == TrackRbfSummaryStep(r.cl, r.resp, f, socketData)
\* the end of the handler: u is what the tracking steps left, i what action
\* init did to the snapshot
EndOfFrame(u, i, f) ==
  [cl |-> IF i.returned THEN u.cl
          ELSE TrackBisqMarketStep(TrackDonationStep(u.cl, f), f),
   socketData |-> i.socketData,
   serializedInitData |-> i.serializedInitData,
   wrote |-> i.wrote,
   initSent |-> IsInit(f) /\ ~i.returned,
   resp |-> IF i.returned THEN << >> ELSE PingStep(u.resp, f)]
RestOfFrame(cl, resp, f) ==
  EndOfFrame(
    ThenRbfSummary(ThenRbf(ThenMempoolBlock(ThenScriptpubkeys(
      TrackAddressesStep(TrackAddressStep(cl, f), TxPositionStep(cl, resp, f), f),
      f), f), f), f),
    IF IsInit(f) THEN InitStep(socketData, serializedInitData)
    ELSE [socketData |-> socketData, serializedInitData |-> serializedInitData,
          wrote |-> FALSE, returned |-> FALSE],
    f)
\* ---------------------------------------------------------------- messages
\* What client.send was handed: the event it belongs to (0 for what a frame
\* is answered with), the response map, the text when it is serializedInitData,
\* and whether the socket was open at that moment.
EventMsg(ev, resp, open) ==
  [ev |-> ev, kind |-> "event", resp |-> resp, text |-> "", open |-> open]
ResponseMsg(resp, open) ==
  [ev |-> 0, kind |-> "response", resp |-> resp, text |-> "", open |-> open]
InitMsg(sd, blob, open) ==
  [ev |-> 0, kind |-> "init", resp |-> sd, text |-> blob, open |-> open]
\* the sends of one frame: serializedInitData first, then the response if it has a key
FrameMsgs(r, open) ==
  (IF r.initSent THEN <<InitMsg(r.socketData, r.serializedInitData, open)>> ELSE << >>)
  \o (IF Len(r.resp) > 0 THEN <<ResponseMsg(r.resp, open)>> ELSE << >>)
\* the frame the last step worked on: the client, the frame, the session the
\* frame found, and whether the step ran the handler's start and its end
FrameStep(c, f, before, began, ended) ==
  [c |-> c, frame |-> f, before |-> before, began |-> began, ended |-> ended]

\* ------------------------------------------------------- history variables
InProgress(hs, ls) == {t.ev : t \in hs} \cup {t.ev : t \in ls}
DataKeys(data) == {data[i][1] : i \in 1..Len(data)}
\* S as the keys in ks stand now, over the rest of the resting snapshot
RECURSIVE CopyKeys(_, _, _)
CopyKeys(rest, sd, ks) ==
  IF ks = {} THEN rest
  ELSE LET k == CHOOSE x \in ks : TRUE
       IN  CopyKeys(IF ObjHas(sd, k) THEN ObjSet(rest, k, ObjGet(sd, k))
                    ELSE ObjDelete(rest, k), sd, ks \ {k})
\* a write of the keys ks by event ev (0: by a frame or a registration) that
\* leaves sd, when the events in `running` are still in progress afterwards
HistoryAfterWrite(ev, ks, sd, running) ==
  LET done == {k \in DOMAIN pending : pending[k] \notin running}
      mine == IF ev \in running THEN ks ELSE {}
      settled == (done \cup ks) \ mine
  IN  [pending |-> [k \in (DOMAIN pending \ settled) \cup mine |->
                      IF k \in mine THEN ev ELSE pending[k]],
       sAtRest |-> CopyKeys(sAtRest, sd, settled),
       lastWrite |-> IF ks = {} THEN lastWrite ELSE ev]
SetHistory(h) ==
  /\ pending' = h.pending
  /\ sAtRest' = h.sAtRest
  /\ lastWrite' = h.lastWrite

\* ------------------------------------------------------------- operations
Running == InProgress(handlers, loops)
\* a behaviour receives at most MaxEvents events, MaxFrames frames, and
\* MaxInputs of both
MoreEvents == nextEv <= MaxEvents /\ nFrames + nextEv <= MaxInputs
MoreFrames == nFrames < MaxFrames /\ nFrames + nextEv <= MaxInputs
snapshotVars == <<socketData, serializedInitData>>
historyVars == <<lastWrite, pending, sAtRest>>
taskVars == <<handlers, loops, frames>>

NoOutput == [c \in ClientIds |-> << >>]
\* the event numbers of the messages in msgs
EventNumbers(msgs) == {msgs[i].ev : i \in 1..Len(msgs)}
Highest(ns) == CHOOSE n \in ns : \A m \in ns : m <= n
\* the step hands `out` to client.send; what the step before sent is delivered
ObserveFrame(out, steps) ==
  /\ sent' = out
  /\ delivered' = [c \in ClientIds |-> Highest({delivered[c]} \cup EventNumbers(sent[c]))]
  /\ lastFrame' = steps
  /\ thrown' = ""
Observe(out) == ObserveFrame(out, << >>)
\* client.send to every socket of wss.clients that is open and passes `subscribed`
Broadcast(ev, resp, subscribed(_)) ==
  Observe([c \in ClientIds |->
             IF clients[c].readyState = "OPEN" /\ subscribed(c)
             THEN <<EventMsg(ev, resp, TRUE)>>
             ELSE << >>])
\* this.socketData and this.serializedInitData after updateSocketDataFields(data)
\* called by event ev (0: by a frame or a registration)
WriteFields(ev, data, running) ==
  LET r == updateSocketDataFields(socketData, data)
  IN  /\ socketData' = r.socketData
      /\ serializedInitData' = r.serializedInitData
      /\ SetHistory(HistoryAfterWrite(ev, DataKeys(data), r.socketData, running))

setWebsocketServer ==
  /\ ~wss
  /\ wss' = TRUE
  /\ Observe(NoOutput)
  /\ UNCHANGED <<config, extraInitProperties, snapshotVars, clients, env, taskVars,
                 nextEv, nFrames, historyVars>>

\* setExtraInitData(property, value)
ExtraProperties == {"gitCommit"}
ExtraValues == {JStr(<<"c", "1">>)}
setExtraInitData(property, value) ==
  /\ ~ObjHas(extraInitProperties, property)
  /\ extraInitProperties' = ObjSet(extraInitProperties, property, value)
  /\ WriteFields(0, extraInitProperties', Running)
  /\ Observe(NoOutput)
  /\ UNCHANGED <<wss, config, clients, env, taskVars, nextEv, nFrames>>

\* wss.on('connection'): sockets connect in the order of their numbers
Connection(c) ==
  /\ wss
  /\ clients[c].readyState = "NONE"
  /\ \A d \in ClientIds : d < c => clients[d].readyState # "NONE"
  /\ clients' = [clients EXCEPT ![c] = NewSession]
  /\ Observe(NoOutput)
  /\ UNCHANGED <<wss, config, extraInitProperties, snapshotVars, env, taskVars,
                 nextEv, nFrames, historyVars>>

\* the peer closes the socket (or client.close() after an error event)
Close(c) ==
  /\ clients[c].readyState = "OPEN"
  /\ clients' = [clients EXCEPT ![c].readyState = "CLOSED"]
  /\ Observe(NoOutput)
  /\ UNCHANGED <<wss, config, extraInitProperties, snapshotVars, env, taskVars,
                 nextEv, nFrames, historyVars>>

\* the effects of a frame handled to its end for client c: r is what
\* RestOfFrame left, open whether the socket was open
FinishWith(c, r, open, f, before, began) ==
  /\ clients' = [clients EXCEPT ![c] = r.cl]
  /\ socketData' = r.socketData
  /\ serializedInitData' = r.serializedInitData
  /\ ObserveFrame([NoOutput EXCEPT ![c] = FrameMsgs(r, open)],
                  <<FrameStep(c, f, before, began, TRUE)>>)
  /\ SetHistory(HistoryAfterWrite(0,
       IF r.wrote THEN DataKeys(SocketDataFromCollaborators(env)) ELSE {},
       r.socketData, Running))
\* the message handler from `resp` on, run to its end for client c
FinishMessage(c, cl, resp, f, before, began) ==
  FinishWith(c, RestOfFrame(cl, resp, f), cl.readyState = "OPEN", f, before, began)

\* the message handler from its start: b is what BeginFrame left
StartMessage(c, f, b) ==
  IF b.await = "none"
  THEN /\ FinishMessage(c, b.cl, b.resp, f, clients[c], TRUE)
       /\ frames' = frames
  ELSE /\ clients' = [clients EXCEPT ![c] = b.cl]
       /\ frames' = frames \cup
            {[c |-> c, frame |-> f, before |-> clients[c],
              resp |-> b.resp, await |-> b.await]}
       /\ ObserveFrame(NoOutput, <<FrameStep(c, f, clients[c], TRUE, FALSE)>>)
       /\ UNCHANGED <<snapshotVars, historyVars>>
\* client.on('message') for a frame that parses to the object f
HandleMessage(c, f) ==
  /\ clients[c].readyState = "OPEN"
  /\ MoreFrames
  /\ nFrames' = nFrames + 1
  /\ StartMessage(c, f, BeginFrame(clients[c], f))
  /\ UNCHANGED <<wss, config, extraInitProperties, env, handlers, loops, nextEv>>
\* the frames that make the handler throw: a text JSON.parse refuses, and the
\* JSON value null, which passes every `parsedMessage &&` test and throws at
\* parsedMessage.action
Malformed == {"not json", "null"}
MalformedFrame(m) == "malformed" :> m
\* a handler that logs the exception and leaves the socket open
HandleMalformedIgnores(c, m) ==
  /\ clients[c].readyState = "OPEN"
  /\ MoreFrames
  /\ nFrames' = nFrames + 1
  /\ ObserveFrame(NoOutput, <<FrameStep(c, MalformedFrame(m), clients[c], TRUE, TRUE)>>)
  /\ UNCHANGED <<wss, config, extraInitProperties, snapshotVars, clients, env, taskVars,
                 nextEv, historyVars>>
\* client.on('message') for a frame that makes the handler throw: the catch
\* block closes the socket, nothing is sent
HandleMalformed(c, m) ==
  /\ clients[c].readyState = "OPEN"
  /\ MoreFrames
  /\ nFrames' = nFrames + 1
  /\ clients' = [clients EXCEPT ![c].readyState = "CLOSED"]
  /\ ObserveFrame(NoOutput, <<FrameStep(c, MalformedFrame(m), clients[c], TRUE, TRUE)>>)
  /\ UNCHANGED <<wss, config, extraInitProperties, snapshotVars, env, taskVars,
                 nextEv, historyVars>>
\* the await of track-tx settles: $getMempoolTransactionExtended resolved (ok) or threw
ResumeMessage(t, ok) ==
  /\ t \in frames
  /\ frames' = frames \ {t}
  /\ LET a == AfterLookup(clients[t.c], t.resp, t.frame, t.await, ok)
     IN  FinishMessage(t.c, a.cl, a.resp, t.frame, t.before, FALSE)
  /\ UNCHANGED <<wss, config, extraInitProperties, env, handlers, loops, nextEv, nFrames>>

\* ------------------------------------------------------- server not bound
\* the event handlers; each starts with
\* if (!this.wss) { throw new Error('WebSocket.Server is not set'); }
EventHandlers ==
  {"handleNewDonation", "handleLoadingChanged", "handleNewConversionRates",
   "handleNewStatistic", "handleReorg", "$handleMempoolChange", "handleNewBlock"}
\* what a throwing step leaves for the observer: nothing was sent
ObserveThrow(h) ==
  /\ sent' = NoOutput
  /\ delivered' = [c \in ClientIds |-> Highest({delivered[c]} \cup EventNumbers(sent[c]))]
  /\ lastFrame' = << >>
  /\ thrown' = h
\* handleLoadingChanged with the test of this.wss after updateSocketDataFields
ThrowsUnboundAfterWrite(h) ==
  /\ ~wss
  /\ WriteFields(0, << <<"loadingIndicators", IndicatorsJs(env.loadingIndicators)>> >>, Running)
  /\ ObserveThrow(h)
  /\ UNCHANGED <<wss, config, extraInitProperties, clients, env, taskVars, nextEv, nFrames>>
\* the event handler h invoked before setWebsocketServer: it throws at its
\* first statement (the async handlers return a rejected promise)
ThrowsUnbound(h) ==
  /\ ~wss
  /\ ObserveThrow(h)
  /\ UNCHANGED <<wss, config, extraInitProperties, snapshotVars, clients, env, taskVars,
                 nextEv, nFrames, historyVars>>

\* ---------------------------------------------------------- simple events
\* handleNewStatistic that sends to every open socket
handleNewStatisticToAll(stats) ==
  /\ wss
  /\ MoreEvents
  /\ nextEv' = nextEv + 1
  /\ Broadcast(nextEv, << <<"live-2h-chart", Stringify(stats)>> >>, LAMBDA c : TRUE)
  /\ UNCHANGED <<wss, config, extraInitProperties, snapshotVars, clients, env,
                 taskVars, nFrames, historyVars>>
\* handleNewDonation(id); env.donation is the id the donation service
\* confirmed last
DonationIds == {Rep("d", 22)}
handleNewDonation(id) ==
  /\ wss
  /\ MoreEvents
  /\ nextEv' = nextEv + 1
  /\ env' = [env EXCEPT !.donation = id]
  /\ Broadcast(nextEv, << <<"donationConfirmed", Stringify(JBool(TRUE))>> >>,
               LAMBDA c : clients[c].trackDonation = id)
  /\ UNCHANGED <<wss, config, extraInitProperties, snapshotVars, clients,
                 taskVars, nFrames, historyVars>>

\* handleLoadingChanged(indicators)
handleLoadingChanged(indicators) ==
  /\ wss
  /\ MoreEvents
  /\ nextEv' = nextEv + 1
  /\ env' = [env EXCEPT !.loadingIndicators = indicators]
  /\ WriteFields(nextEv, << <<"loadingIndicators", IndicatorsJs(indicators)>> >>, Running)
  /\ Broadcast(nextEv, << <<"loadingIndicators", Stringify(IndicatorsJs(indicators))>> >>,
               LAMBDA c : TRUE)
  /\ UNCHANGED <<wss, config, extraInitProperties, clients, taskVars, nFrames>>

\* handleNewConversionRates(conversionRates)
handleNewConversionRates(conversionRates) ==
  /\ wss
  /\ MoreEvents
  /\ nextEv' = nextEv + 1
  /\ env' = [env EXCEPT !.prices = conversionRates]
  /\ WriteFields(nextEv, << <<"conversions", PricesJs(conversionRates)>> >>, Running)
  /\ Broadcast(nextEv, << <<"conversions", Stringify(PricesJs(conversionRates))>> >>,
               LAMBDA c : TRUE)
  /\ UNCHANGED <<wss, config, extraInitProperties, clients, taskVars, nFrames>>

\* handleNewStatistic(stats)
handleNewStatistic(stats) ==
  /\ wss
  /\ MoreEvents
  /\ nextEv' = nextEv + 1
  /\ Broadcast(nextEv, << <<"live-2h-chart", Stringify(stats)>> >>,
               LAMBDA c : clients[c].want["live-2h-chart"])
  /\ UNCHANGED <<wss, config, extraInitProperties, snapshotVars, clients, env,
                 taskVars, nFrames, historyVars>>

\* a reorganisation as the block store reports it: the tip is replaced
ReorgChain(chain) ==
  [chain EXCEPT ![Len(chain)] = [@ EXCEPT !.id = 1 - @]]
\* ReorgResponse with both keys for every client
ReorgResponseAll(c, sd) ==
  ObjSet(ObjSet(<< >>, "blocks", ObjGet(sd, "blocks")), "da", ObjGet(sd, "da"))
\* the response of handleReorg for client c
ReorgResponse(c, sd) ==
  LET r1 == IF clients[c].want["blocks"]
            THEN ObjSet(<< >>, "blocks", ObjGet(sd, "blocks")) ELSE << >>
  IN  IF clients[c].want["stats"] THEN ObjSet(r1, "da", ObjGet(sd, "da")) ELSE r1
\* handleReorg()
handleReorg ==
  /\ wss
  /\ MoreEvents
  /\ env.chain # << >>
  /\ nextEv' = nextEv + 1
  /\ env' = [env EXCEPT !.chain = ReorgChain(@)]
  /\ LET data == << <<"blocks", BlocksJs(ReorgChain(env.chain))>>,
                    <<"da", DaOrUndefined(env)>> >>
     IN  /\ WriteFields(nextEv, data, Running)
         /\ Observe([c \in ClientIds |->
                       IF clients[c].readyState = "OPEN"
                          /\ Len(ReorgResponse(c, socketData')) > 0
                       THEN <<EventMsg(nextEv, ReorgResponse(c, socketData'), TRUE)>>
                       ELSE << >>])
  /\ UNCHANGED <<wss, config, extraInitProperties, clients, taskVars, nFrames>>

\* ---------------------------------------------------- $handleMempoolChange
\* What the handler holds in its locals once the templates are updated: the
\* transactions of the event, the collaborators as it read them (e), the copy
\* of socketData it took for responseCache, and the txids clients tracked.
\* getCachedResponse(key, data) over responseCache = { ...this.socketData }
getCachedResponse(cache, key, data) ==
  IF Falsy(ObjGet(cache, key)) THEN Stringify(data) ELSE ObjGet(cache, key)
\* Common.findRbfTransactions(newTransactions, deletedTransactions): a deleted
\* transaction is replaced by an added one that spends the same output
findRbfTransactions(added, deleted) ==
  IF added # << >> /\ deleted # << >>
  THEN [n \in NamesOf(deleted) |-> added[Len(added)]]
  ELSE << >>
\* Object.keys(rbfChanges.trees).length, and rbfChanges.map[txid]
RbfChanged(d) == DOMAIN d.rbf # {}
InRbfChange(d, txid) ==
  \E n \in DOMAIN d.rbf : TxidOf(n) = txid \/ TxidOf(d.rbf[n]) = txid
\* rbfChanges.trees[rbfChanges.map[txid]]
RbfTreeOf(d, txid) ==
  RbfTreeJs(d.e, CHOOSE n \in DOMAIN d.rbf : TxidOf(n) = txid \/ TxidOf(d.rbf[n]) = txid)
\* outspendCache[txid]: vout 0 of txid as spent by the last added transaction
HasOutspends(d, txid) ==
  txid \in d.trackedTxs /\ \E i \in 1..Len(d.added) : VinTxid(d.added[i]) = txid
OutspendsJsOfTracked(d, txid) ==
  JObj(<< <<"0", JObj(<< <<"vin", JNum(0)>>, <<"txid", JStr(txid)>> >>)>> >>)
OutspendsJs(d, txid) ==
  LET spenders == SelectSeq(d.added, LAMBDA n : VinTxid(n) = txid)
  IN  JObj(<< <<"0", JObj(<< <<"vin", JNum(0)>>,
                            <<"txid", JStr(TxidOf(spenders[Len(spenders)]))>> >>)>> >>)

\* Where the per-client callback stands: finished (stage "done"), at an await
\* (the stage names it), or running (stage "run") with `next` naming the part
\* of the callback that comes next.
LoopDone(cl, resp) ==
  [cl |-> cl, resp |-> resp, stage |-> "done", next |-> "none", i |-> 0,
   map |-> << >>, entries |-> << >>, txs |-> << >>]
LoopAwait(cl, resp, stage, i, map, entries, txs) ==
  [cl |-> cl, resp |-> resp, stage |-> stage, next |-> "none", i |-> i, map |-> map,
   entries |-> entries, txs |-> txs]
LoopRun(cl, resp, next) ==
  [cl |-> cl, resp |-> resp, stage |-> "run", next |-> next, i |-> 1,
   map |-> << >>, entries |-> << >>, txs |-> << >>]
\* running inside the loop over the entries, at entry i
LoopRunFrom(cl, resp, next, i, map, entries) ==
  [cl |-> cl, resp |-> resp, stage |-> "run", next |-> next, i |-> i,
   map |-> map, entries |-> entries, txs |-> << >>]
AtPart(r, part) == r.stage = "run" /\ r.next = part
\* the array the await of getFullTransactions leaves: each lookup replaces the
\* transaction when it resolves and keeps it when it throws
FullTransactions(e, txs, ok) ==
  JArr([i \in 1..Len(txs) |-> IF ok THEN FullTxJs(TxidOf(txs[i])) ELSE TxJs(e, txs[i])])
\* { mempool, confirmed, removed }
AddressTransactionsJs(mempool, confirmed, removed) ==
  JObj(<< <<"mempool", mempool>>, <<"confirmed", confirmed>>, <<"removed", removed>> >>)

\* DeltaWanted with `da` put whenever want-stats is set
DeltaWantedAnyDa(d, cl) ==
  PutIf(cl.want["tomahawk"],
    PutIf(cl.want["mempool-blocks"],
      PutIf(cl.want["stats"],
        PutIf(cl.want["stats"],
          PutIf(cl.want["stats"],
            PutIf(cl.want["stats"],
              PutIf(cl.want["stats"], << >>,
                "mempoolInfo", getCachedResponse(d.cache, "mempoolInfo", MempoolInfoJs(d.e))),
              "vBytesPerSecond", getCachedResponse(d.cache, "vBytesPerSecond", VBytesPerSecondJs(d.e))),
            "transactions", getCachedResponse(d.cache, "transactions", LatestTransactionsJs(d.e))),
          "da", getCachedResponse(d.cache, "da", DaJs(d.e))),
        "fees", getCachedResponse(d.cache, "fees", RecommendedFeeJs(d.e))),
      "mempool-blocks", getCachedResponse(d.cache, "mempool-blocks", MempoolBlocksJs(d.e))),
    "tomahawk", getCachedResponse(d.cache, "tomahawk", getHealthStatus))
\* want-stats, want-mempool-blocks, want-tomahawk
DeltaWanted(d, cl) ==
  PutIf(cl.want["tomahawk"],
    PutIf(cl.want["mempool-blocks"],
      PutIf(cl.want["stats"],
        PutIf(cl.want["stats"] /\ HasPreviousTime(d.e),
          PutIf(cl.want["stats"],
            PutIf(cl.want["stats"],
              PutIf(cl.want["stats"], << >>,
                "mempoolInfo", getCachedResponse(d.cache, "mempoolInfo", MempoolInfoJs(d.e))),
              "vBytesPerSecond", getCachedResponse(d.cache, "vBytesPerSecond", VBytesPerSecondJs(d.e))),
            "transactions", getCachedResponse(d.cache, "transactions", LatestTransactionsJs(d.e))),
          "da", getCachedResponse(d.cache, "da", DaJs(d.e))),
        "fees", getCachedResponse(d.cache, "fees", RecommendedFeeJs(d.e))),
      "mempool-blocks", getCachedResponse(d.cache, "mempool-blocks", MempoolBlocksJs(d.e))),
    "tomahawk", getCachedResponse(d.cache, "tomahawk", getHealthStatus))

\* if (client['track-asset']): address-transactions
DeltaAsset(d, live, cl, resp) ==
  PutIf(cl.trackAsset # Null /\ \E i \in 1..Len(d.added) : cl.trackAsset \in TxAssets(d.added[i]),
    resp, "address-transactions",
    Stringify(TxsJs(live, SelectSeq(d.added, LAMBDA n : cl.trackAsset \in TxAssets(n)))))
\* if (client['track-tx']): utxoSpent, rbfTransaction, rbfInfo, txPosition;
\* transactions of the model are never cpfpDirty
DeltaTrackTx(d, live, txid, resp) ==
  PutIf(txid # Null /\ \E n \in MempoolNames(live, txid) : HasPosition(live, n),
    PutIf(txid # Null /\ InRbfChange(d, txid),
      PutIf(txid # Null /\ InRbfChange(d, txid) /\ getReplacedBy(live, txid) # Null,
        PutIf(txid # Null /\ HasOutspends(d, txid),
          resp, "utxoSpent", Stringify(OutspendsJs(d, txid))),
        "rbfTransaction",
        Stringify(JObj(<< <<"txid", JStr(getReplacedBy(live, txid))>> >>))),
      "rbfInfo", Stringify(RbfTreeOf(d, txid))),
    "txPosition",
    Stringify(JObj(<< <<"txid", JStr(txid)>>,
                      <<"position", PositionJs(CHOOSE n \in MempoolNames(live, txid) : TRUE)>> >>)))
\* the callback from track-asset to its end, with the collaborators as they
\* stand when it runs (live): the response it hands to client.send
DeltaTail(d, live, cl, resp) ==
  PutIf(cl.trackRbfSummary /\ RbfChanged(d),
    PutIf(cl.trackRbf = "fullRbf" /\ RbfChanged(d),
      PutIf(cl.trackRbf = "all" /\ RbfChanged(d),
        \* null >= 0 holds, and mBlockDeltas[null] is undefined
        PutIf(cl.trackMempoolBlock # Null /\ isInSync(live)
                /\ HasDelta(d.e, cl.trackMempoolBlock[1]),
          DeltaTrackTx(d, live, cl.trackTx, DeltaAsset(d, live, cl, resp)),
          "projected-block-transactions",
          getCachedResponse(d.cache,
            "projected-block-transactions-" \o ToString(cl.trackMempoolBlock[1]),
            JObj(<< <<"index", JNum(cl.trackMempoolBlock[1])>>,
                    <<"delta", DeltaJs(d.e)>> >>))),
        "rbfLatest", getCachedResponse(d.cache, "rbfLatest", getRbfTrees(d.e, FALSE))),
      "rbfLatest", getCachedResponse(d.cache, "fullrbfLatest", getRbfTrees(d.e, TRUE))),
    "rbfLatestSummary",
    getCachedResponse(d.cache, "rbfLatestSummary", getLatestRbfSummary(d.e)))
\* the end of the callback, once no await is left
DeltaEnd(d, live, r) ==
  IF AtPart(r, "tail") THEN LoopDone(r.cl, DeltaTail(d, live, r.cl, r.resp)) ELSE r

\* the pairs <<key of spkMap, key of the address cache>>, both the spk
SpkEntries(spks) == [j \in 1..Len(spks) |-> <<spks[j], spks[j]>>]
\* the loop of track-addresses over Object.entries, and of track-scriptpubkeys
\* over the array, from entry i on, the map built so far being `map`; it ends
\* with the key put in the response and `next` to come
RECURSIVE DeltaEntriesFrom(_, _, _, _, _, _, _, _, _, _)
DeltaEntriesFrom(d, live, cl, resp, entries, i, map, stage, key, next) ==
  IF i > Len(entries)
  THEN LoopRun(cl, PutIf(Len(map) > 0, resp, key, Stringify(JObj(map))), next)
  ELSE IF makeAddressCache(d.added, entries[i][2]) = << >>
  THEN DeltaEntriesFrom(d, live, cl, resp, entries, i + 1, map, stage, key, next)
  ELSE IF config.BACKEND # "esplora"
  THEN LoopAwait(cl, resp, stage, i, map, entries, makeAddressCache(d.added, entries[i][2]))
  ELSE DeltaEntriesFrom(d, live, cl, resp, entries, i + 1,
         ObjSet(map, StrOf(entries[i][1]),
           AddressTransactionsJs(TxsJs(live, makeAddressCache(d.added, entries[i][2])),
                                 JArr(<< >>),
                                 TxsJs(live, makeAddressCache(d.deleted, entries[i][2])))),
         stage, key, next)
\* if (client['track-scriptpubkeys']), entered at its start or after an await
DeltaSpks(d, live, r) ==
  IF AtPart(r, "spksFrom")
  THEN DeltaEntriesFrom(d, live, r.cl, r.resp, r.entries, r.i, r.map,
                        "spks", "multi-scriptpubkey-transactions", "tail")
  ELSE IF AtPart(r, "spks") /\ r.cl.trackScriptpubkeys # Null
  THEN DeltaEntriesFrom(d, live, r.cl, r.resp, SpkEntries(r.cl.trackScriptpubkeys[1]), 1, << >>,
                        "spks", "multi-scriptpubkey-transactions", "tail")
  ELSE IF AtPart(r, "spks") THEN [r EXCEPT !.next = "tail"]
  ELSE r
\* if (client['track-addresses']), entered at its start or after an await
DeltaAddresses(d, live, r) ==
  IF AtPart(r, "addressesFrom")
  THEN DeltaEntriesFrom(d, live, r.cl, r.resp, r.entries, r.i, r.map,
                        "addresses", "multi-address-transactions", "spks")
  ELSE IF AtPart(r, "addresses") /\ r.cl.trackAddresses # Null
  THEN DeltaEntriesFrom(d, live, r.cl, r.resp, r.cl.trackAddresses[1], 1, << >>,
                        "addresses", "multi-address-transactions", "spks")
  ELSE IF AtPart(r, "addresses") THEN [r EXCEPT !.next = "spks"]
  ELSE r

\* track-address once fullTransactions is there
DeltaAddressEnd(d, live, cl, resp, removed, full) ==
  LoopRun(cl,
    PutIf(Len(full.v) > 0,
      PutIf(removed # << >>, resp,
        "address-removed-transactions", Stringify(TxsJs(live, removed))),
      "address-transactions", Stringify(full)),
    "addresses")
\* if (client['track-address'])
DeltaAddress(d, live, r) ==
  IF ~AtPart(r, "address") THEN r
  ELSE IF r.cl.trackAddress = Null THEN [r EXCEPT !.next = "addresses"]
  ELSE IF config.BACKEND # "esplora" /\ makeAddressCache(d.added, r.cl.trackAddress) # << >>
  THEN LoopAwait(r.cl, r.resp, "address", 1, << >>,
                 <<<<r.cl.trackAddress, r.cl.trackAddress>>>>,
                 makeAddressCache(d.added, r.cl.trackAddress))
  ELSE DeltaAddressEnd(d, live, r.cl, r.resp,
         makeAddressCache(d.deleted, r.cl.trackAddress),
         TxsJs(live, makeAddressCache(d.added, r.cl.trackAddress)))

\* the transaction of newTransactions with this txid
AddedTx(d, txid) == CHOOSE n \in NamesOf(d.added) : TxidOf(n) = txid
\* if (client['track-mempool-tx'])
DeltaMempoolTx(d, live, r) ==
  IF ~AtPart(r, "mempoolTx") THEN r
  ELSE IF r.cl.trackMempoolTx = Null
          \/ ~\E i \in 1..Len(d.added) : TxidOf(d.added[i]) = r.cl.trackMempoolTx
  THEN [r EXCEPT !.next = "address"]
  ELSE IF config.BACKEND # "esplora"
  THEN LoopAwait(r.cl, r.resp, "mempoolTx", 0, << >>, << >>,
                 <<AddedTx(d, r.cl.trackMempoolTx)>>)
  ELSE LoopRun([r.cl EXCEPT !.trackMempoolTx = Null],
               ObjSet(r.resp, "tx", Stringify(TxJs(live, AddedTx(d, r.cl.trackMempoolTx)))),
               "address")

\* the parts of the callback in their order, from where r stands to the next
\* await or to the end
DeltaRun(d, live, r) ==
  DeltaEnd(d, live, DeltaSpks(d, live, DeltaAddresses(d, live,
    DeltaAddress(d, live, DeltaMempoolTx(d, live, r)))))
\* the callback of wss.clients.forEach from its start to its first await
DeltaClient(d, live, cl) == DeltaRun(d, live, LoopRun(cl, DeltaWanted(d, cl), "mempoolTx"))

\* the entry the loop stood at, put in the map once its await has settled
EntryPut(t, live, ok) ==
  ObjSet(t.map, StrOf(t.entries[t.i][1]),
    AddressTransactionsJs(FullTransactions(live, t.txs, ok), JArr(<< >>),
      TxsJs(live, makeAddressCache(t.d.deleted, t.entries[t.i][2]))))
\* where the callback stands right after the await it stood at, the lookups
\* having resolved (ok) or thrown
AfterAwait(t, live, cl, ok) ==
  CASE t.stage = "mempoolTx" ->
         LoopRun([cl EXCEPT !.trackMempoolTx = Null],
                 PutIf(ok, t.resp, "tx", Stringify(FullTxJs(TxidOf(t.txs[1])))),
                 "address")
    [] t.stage = "address" ->
         DeltaAddressEnd(t.d, live, cl, t.resp,
           makeAddressCache(t.d.deleted, t.entries[1][2]),
           FullTransactions(live, t.txs, ok))
    [] t.stage = "addresses" ->
         LoopRunFrom(cl, t.resp, "addressesFrom", t.i + 1, EntryPut(t, live, ok), t.entries)
    [] OTHER ->
         LoopRunFrom(cl, t.resp, "spksFrom", t.i + 1, EntryPut(t, live, ok), t.entries)
\* the callback after the await it stood at; t is the suspended callback, cl
\* the session as it is now
DeltaResume(t, live, cl, ok) == DeltaRun(t.d, live, AfterAwait(t, live, cl, ok))
\* a suspended event handler: its event, where it stands, and its arguments
MempoolTask(ev, added, deleted) ==
  [ev |-> ev, kind |-> "mempool", pc |-> "template", added |-> added,
   deleted |-> deleted, block |-> [height |-> 0, id |-> 0, timestamp |-> 0], mined |-> << >>]
\* the sockets of wss.clients: a closed socket has left the set
OpenClients == {c \in ClientIds : clients[c].readyState = "OPEN"}

\* socketDataFields of $handleMempoolChange
MempoolChangeFields(e, rbf) ==
  << <<"mempoolInfo", MempoolInfoJs(e)>>,
     <<"vBytesPerSecond", VBytesPerSecondJs(e)>>,
     <<"mempool-blocks", MempoolBlocksJs(e)>>,
     <<"transactions", LatestTransactionsJs(e)>>,
     <<"loadingIndicators", IndicatorsJs(e.loadingIndicators)>>,
     <<"da", DaOrUndefined(e)>>,
     <<"fees", RecommendedFeeJs(e)>> >>
  \o (IF DOMAIN rbf # {} THEN << <<"rbfSummary", getLatestRbfSummary(e)>> >> ELSE << >>)

\* the callbacks that stand at an await once forEach has returned
StartedLoops(ev, d, run) ==
  {[ev |-> ev, c |-> c, d |-> d, stage |-> run[c].stage, resp |-> run[c].resp,
    i |-> run[c].i, map |-> run[c].map, entries |-> run[c].entries,
    txs |-> run[c].txs] : c \in {x \in OpenClients : run[x].stage # "done"}}
\* what $handleMempoolChange leaves: w is the snapshot written, run the
\* callback of every client up to its first await, started the callbacks that
\* stand at one
MempoolChangeEffects(ev, e2, fields, w, run, started, hs) ==
  /\ env' = e2
  /\ socketData' = w.socketData
  /\ serializedInitData' = w.serializedInitData
  /\ clients' = [c \in ClientIds |-> IF c \in OpenClients THEN run[c].cl ELSE clients[c]]
  /\ loops' = loops \cup started
  /\ handlers' = hs
  /\ Observe([c \in ClientIds |->
                IF c \in OpenClients /\ run[c].stage = "done" /\ Len(run[c].resp) > 0
                THEN <<EventMsg(ev, run[c].resp, TRUE)>>
                ELSE << >>])
  /\ SetHistory(HistoryAfterWrite(ev, DataKeys(fields), w.socketData,
                                  InProgress(hs, loops \cup started)))
\* the locals of the handler: d is what the callbacks read
MempoolChangeLoop(ev, d, fields, w, run, hs) ==
  MempoolChangeEffects(ev, d.e, fields, w, run, StartedLoops(ev, d, run), hs)
MempoolChangeLocals(ev, d, fields, w, hs) ==
  MempoolChangeLoop(ev, d, fields, w,
    [c \in ClientIds |-> DeltaClient(d, d.e, clients[c])], hs)
MempoolChangeWrite(ev, added, deleted, rbf, e2, fields, w, hs) ==
  MempoolChangeLocals(ev,
    [added |-> added, deleted |-> deleted, e |-> e2, cache |-> w.socketData,
     rbf |-> rbf,
     trackedTxs |-> {clients[c].trackTx : c \in {x \in OpenClients : clients[x].trackTx # Null}}],
    fields, w, hs)
MempoolChangeRbf(ev, added, deleted, rbf, e2, fields, hs) ==
  MempoolChangeWrite(ev, added, deleted, rbf, e2, fields,
    updateSocketDataFields(socketData, fields), hs)
\* $handleMempoolChange from the updated templates on: the snapshot is
\* written, the caches are built, and the callback of every client runs to its
\* first await; e0 is what the collaborators report, hs the handlers that stay
\* suspended
MempoolChangeBody(ev, added, deleted, e0, hs) ==
  LET rbf == findRbfTransactions(added, deleted)
      e2 == [UpdateTemplates(e0) EXCEPT !.replacedBy = IF DOMAIN rbf = {} THEN @ ELSE rbf @@ @]
  IN  MempoolChangeRbf(ev, added, deleted, rbf, e2, MempoolChangeFields(e2, rbf), hs)
\* $handleMempoolChange(newMempool, mempoolSize, newTransactions,
\* deletedTransactions, accelerationDelta), called by the mempool engine once
\* it has applied the change; with ADVANCED_GBT_MEMPOOL the handler stops at
\* the await of the template update
handleMempoolChange(added, deleted) ==
  /\ wss
  /\ MoreEvents
  /\ added \cap env.mempool = {}
  /\ deleted \subseteq env.mempool
  /\ added \cup deleted # {}
  /\ nextEv' = nextEv + 1
  /\ LET e0 == [env EXCEPT !.mempool = (@ \cup added) \ deleted]
     IN  IF config.ADVANCED_GBT_MEMPOOL
         THEN /\ env' = e0
              /\ handlers' = handlers \cup
                   {MempoolTask(nextEv, SeqOfNames(added), SeqOfNames(deleted))}
              /\ Observe(NoOutput)
              /\ UNCHANGED <<snapshotVars, clients, loops, historyVars>>
         ELSE MempoolChangeBody(nextEv, SeqOfNames(added), SeqOfNames(deleted), e0, handlers)
  /\ UNCHANGED <<wss, config, extraInitProperties, frames, nFrames>>

\* the template update of a mempool change has resolved
ResumeMempoolChange(t) ==
  /\ t \in handlers
  /\ t.kind = "mempool"
  /\ MempoolChangeBody(t.ev, t.added, t.deleted, env, handlers \ {t})
  /\ UNCHANGED <<wss, config, extraInitProperties, frames, nextEv, nFrames>>

\* what a resumed callback leaves: r is where it stands now, rest the
\* callbacks that stay suspended
ResumeClientEffects(t, r, rest) ==
  /\ clients' = [clients EXCEPT ![t.c] = r.cl]
  /\ loops' = rest
  /\ Observe([NoOutput EXCEPT ![t.c] =
                IF r.stage = "done" /\ Len(r.resp) > 0
                THEN <<EventMsg(t.ev, r.resp, clients[t.c].readyState = "OPEN")>>
                ELSE << >>])
  /\ SetHistory(HistoryAfterWrite(0, {}, socketData, InProgress(handlers, rest)))
ResumeClientWith(t, r) ==
  ResumeClientEffects(t, r,
    (loops \ {t}) \cup
      (IF r.stage = "done" THEN {}
       ELSE {[t EXCEPT !.stage = r.stage, !.resp = r.resp, !.i = r.i,
                       !.map = r.map, !.entries = r.entries, !.txs = r.txs]}))
\* the await a per-client callback stood at has settled; the callback runs to
\* its next await or to its end, where it sends what it has gathered
ResumeClient(t, ok) ==
  /\ t \in loops
  /\ ResumeClientWith(t, DeltaResume(t, env, clients[t.c], ok))
  /\ UNCHANGED <<wss, config, extraInitProperties, snapshotVars, env, handlers, frames,
                 nextEv, nFrames>>
\* ---------------------------------------------------------- handleNewBlock
\* config.MEMPOOL.AUDIT and MEMPOOL_SERVICES.ACCELERATIONS are off: the handler
\* takes neither the audit branch nor the acceleration branch.
BlockTask(ev, block, mined) ==
  [ev |-> ev, kind |-> "block", pc |-> "stats1", added |-> << >>,
   deleted |-> << >>, block |-> block, mined |-> mined]
\* ConfirmedTxJs without block_time
ConfirmedTxJsUntimed(name, block) ==
  JObj(<< <<"txid", JStr(TxidOf(name))>>,
          <<"status", JObj(<< <<"confirmed", JBool(TRUE)>>,
                              <<"block_height", JNum(block.height)>>,
                              <<"block_hash", JNum(block.id)>> >>)>> >>)
\* a transaction of the block once tx.status is set
ConfirmedTxJs(name, block) ==
  JObj(<< <<"txid", JStr(TxidOf(name))>>,
          <<"status", JObj(<< <<"confirmed", JBool(TRUE)>>,
                              <<"block_height", JNum(block.height)>>,
                              <<"block_hash", JNum(block.id)>>,
                              <<"block_time", JNum(block.timestamp)>> >>)>> >>)
ConfirmedTxsJs(txs, block) == JArr([i \in 1..Len(txs) |-> ConfirmedTxJs(txs[i], block)])
\* the fields handleNewBlock writes to the snapshot
NewBlockFields(e, block) ==
  << <<"mempoolInfo", MempoolInfoJs(e)>>,
     <<"blocks", BlocksJs(SliceLast(Append(e.chain, block), INITIAL_BLOCKS_AMOUNT))>>,
     <<"mempool-blocks", MempoolBlocksJs(e)>>,
     <<"loadingIndicators", IndicatorsJs(e.loadingIndicators)>>,
     <<"da", DaOrUndefined(e)>>,
     <<"fees", RecommendedFeeJs(e)>> >>

RECURSIVE BlockAddressMap(_, _, _, _)
\* addressMap / spkMap of handleNewBlock over the entries <<key, cache key>>
BlockAddressMap(entries, transactions, block, map) ==
  IF entries = << >> THEN map
  ELSE LET fullTransactions == makeAddressCache(transactions, Head(entries)[2])
       IN  BlockAddressMap(Tail(entries), transactions, block,
             IF fullTransactions # << >>
             THEN ObjSet(map, StrOf(Head(entries)[1]),
                    AddressTransactionsJs(JArr(<< >>),
                      ConfirmedTxsJs(fullTransactions, block), JArr(<< >>)))
             ELSE map)

\* want-blocks, want-stats, want-mempool-blocks, want-tomahawk
NewBlockWanted(block, e, cache, cl) ==
  PutIf(cl.want["tomahawk"],
    PutIf(cl.want["mempool-blocks"],
      PutIf(cl.want["stats"] /\ HasPreviousTime(e),
        PutIf(cl.want["stats"],
          PutIf(cl.want["stats"],
            PutIf(cl.want["stats"],
              PutIf(cl.want["blocks"], << >>,
                "block", getCachedResponse(cache, "block", BlockJs(block))),
              "mempoolInfo", getCachedResponse(cache, "mempoolInfo", MempoolInfoJs(e))),
            "vBytesPerSecond", getCachedResponse(cache, "vBytesPerSecond", VBytesPerSecondJs(e))),
          "fees", getCachedResponse(cache, "fees", RecommendedFeeJs(e))),
        "da", getCachedResponse(cache, "da", DaJs(e))),
      "mempool-blocks", getCachedResponse(cache, "mempool-blocks", MempoolBlocksJs(e))),
    "tomahawk", getCachedResponse(cache, "tomahawk", getHealthStatus))
\* the transaction with this txid is in the block
IsMined(transactions, txid) ==
  \E i \in 1..Len(transactions) : TxidOf(transactions[i]) = txid
\* NewBlockTrackTx with txConfirmed for every tracked txid
NewBlockTrackTxAlways(transactions, e, txid, resp) ==
  PutIf(txid # Null, resp, "txConfirmed", Stringify(JStr(txid)))
\* if (client['track-tx']): txConfirmed, or else txPosition
NewBlockTrackTx(transactions, e, txid, resp) ==
  PutIf(txid # Null /\ ~IsMined(transactions, txid)
          /\ \E n \in MempoolNames(e, txid) : HasPosition(e, n),
    PutIf(txid # Null /\ IsMined(transactions, txid),
      resp, "txConfirmed", Stringify(JStr(txid))),
    "txPosition",
    Stringify(JObj(<< <<"txid", JStr(txid)>>,
                      <<"position", PositionJs(CHOOSE n \in MempoolNames(e, txid) : TRUE)>> >>)))
\* the transactions of the block that touch the tracked address, and those
\* that carry the tracked asset
BlockAddressTxs(transactions, cl) ==
  IF cl.trackAddress # Null THEN makeAddressCache(transactions, cl.trackAddress) ELSE << >>
BlockAssetTxs(transactions, cl) ==
  IF cl.trackAsset # Null
  THEN SelectSeq(transactions, LAMBDA n : cl.trackAsset \in TxAssets(n))
  ELSE << >>
\* addressMap and spkMap of the client
ClientAddressMap(block, transactions, cl) ==
  IF cl.trackAddresses # Null
  THEN BlockAddressMap(cl.trackAddresses[1], transactions, block, << >>)
  ELSE << >>
ClientSpkMap(block, transactions, cl) ==
  IF cl.trackScriptpubkeys # Null
  THEN BlockAddressMap(SpkEntries(cl.trackScriptpubkeys[1]), transactions, block, << >>)
  ELSE << >>
\* track-address, track-addresses, track-scriptpubkeys, track-asset
NewBlockTracked(block, transactions, cl, resp) ==
  PutIf(BlockAssetTxs(transactions, cl) # << >>,
    PutIf(Len(ClientSpkMap(block, transactions, cl)) > 0,
      PutIf(Len(ClientAddressMap(block, transactions, cl)) > 0,
        PutIf(BlockAddressTxs(transactions, cl) # << >>,
          resp, "block-transactions",
          Stringify(ConfirmedTxsJs(BlockAddressTxs(transactions, cl), block))),
        "multi-address-transactions",
        Stringify(JObj(ClientAddressMap(block, transactions, cl)))),
      "multi-scriptpubkey-transactions",
      Stringify(JObj(ClientSpkMap(block, transactions, cl)))),
    "block-transactions",
    Stringify(ConfirmedTxsJs(BlockAssetTxs(transactions, cl), block)))
\* the tracked projected block has a delta and holds transactions
HasProjected(e, cl) ==
  /\ cl.trackMempoolBlock # Null /\ isInSync(e)
  /\ HasDelta(e, cl.trackMempoolBlock[1])
  /\ Len(getMempoolBlocksWithTransactions(e)[cl.trackMempoolBlock[1] + 1]) > 0
\* SendsFull with the comparison turned round
SendsFullWhenSmall(e, cl) ==
  2 * Cardinality(e.delta.added)
    <= Len(getMempoolBlocksWithTransactions(e)[cl.trackMempoolBlock[1] + 1])
\* the delta is larger than the block: the whole block is sent
SendsFull(e, cl) ==
  2 * Cardinality(e.delta.added)
    > Len(getMempoolBlocksWithTransactions(e)[cl.trackMempoolBlock[1] + 1])
\* if (client['track-mempool-block'] >= 0 && memPool.isInSync())
NewBlockProjected(e, cache, cl, resp) ==
  PutIf(HasProjected(e, cl) /\ ~SendsFull(e, cl),
    PutIf(HasProjected(e, cl) /\ SendsFull(e, cl),
      resp, "projected-block-transactions",
      getCachedResponse(cache,
        "projected-block-transactions-full-" \o ToString(cl.trackMempoolBlock[1]),
        JObj(<< <<"index", JNum(cl.trackMempoolBlock[1])>>,
                <<"blockTransactions", BlockTransactionsJs(e, cl.trackMempoolBlock[1])>> >>))),
    "projected-block-transactions",
    getCachedResponse(cache,
      "projected-block-transactions-delta-" \o ToString(cl.trackMempoolBlock[1]),
      JObj(<< <<"index", JNum(cl.trackMempoolBlock[1])>>, <<"delta", DeltaJs(e)>> >>)))
\* the response handleNewBlock composes for one client; e is what the
\* collaborators report after the template update
NewBlockResponse(block, transactions, e, cache, cl) ==
  NewBlockProjected(e, cache, cl,
    NewBlockTracked(block, transactions, cl,
      NewBlockTrackTx(transactions, e, cl.trackTx,
        NewBlockWanted(block, e, cache, cl))))

\* what handleNewBlock leaves at the await that ends it: w is the snapshot
\* written, resp the response of every client, hs the handlers suspended
NewBlockEffects(t, e1, fields, w, resp, hs) ==
  /\ env' = e1
  /\ socketData' = w.socketData
  /\ serializedInitData' = w.serializedInitData
  /\ handlers' = hs
  /\ Observe([c \in ClientIds |->
                IF c \in OpenClients /\ Len(resp[c]) > 0
                THEN <<EventMsg(t.ev, resp[c], TRUE)>>
                ELSE << >>])
  /\ SetHistory(HistoryAfterWrite(t.ev, DataKeys(fields), w.socketData,
                                  InProgress(hs, loops)))
  /\ UNCHANGED <<clients, loops>>
NewBlockWrite(t, e1, fields, w) ==
  NewBlockEffects(t, e1, fields, w,
    [c \in ClientIds |-> NewBlockResponse(t.block, t.mined, e1, w.socketData, clients[c])],
    (handlers \ {t}) \cup {[t EXCEPT !.pc = "stats2"]})
NewBlockTemplates(t, e1, fields) ==
  NewBlockWrite(t, e1, fields, updateSocketDataFields(socketData, fields))
\* handleNewBlock from the updated templates to the await of the statistics
\* run that ends it
NewBlockBody(t, e0) ==
  NewBlockTemplates(t, UpdateTemplates(e0), NewBlockFields(UpdateTemplates(e0), t.block))
\* the blocks the block store may report: the next height, holding MinedTxs
BlockContents == {{}, {"A"}}
\* block.timestamp of the block at a height
BlockTime(height) == 10 * height
\* handleNewBlock(block, txIds, transactions) up to its first await
handleNewBlock(mined) ==
  /\ wss
  /\ MoreEvents
  /\ Len(env.chain) < MaxBlocks
  /\ \A t \in handlers : t.kind # "block"
  /\ nextEv' = nextEv + 1
  /\ handlers' = handlers \cup
       {BlockTask(nextEv, [height |-> Len(env.chain) + 1, id |-> 0,
                           timestamp |-> BlockTime(Len(env.chain) + 1)],
                  SeqOfNames(mined))}
  /\ Observe(NoOutput)
  /\ UNCHANGED <<wss, config, extraInitProperties, snapshotVars, clients, env, loops,
                 frames, nFrames, historyVars>>

\* an await of handleNewBlock has resolved: the first statistics run, the
\* template update, or the last statistics run, after which the block store
\* keeps the block
ResumeNewBlock(t) ==
  /\ t \in handlers
  /\ t.kind = "block"
  /\ CASE t.pc = "stats1" ->
            LET e0 == [env EXCEPT !.mempool = @ \ NamesOf(t.mined)]
            IN  IF config.ADVANCED_GBT_MEMPOOL
                THEN /\ env' = e0
                     /\ handlers' = (handlers \ {t}) \cup {[t EXCEPT !.pc = "template"]}
                     /\ Observe(NoOutput)
                     /\ UNCHANGED <<snapshotVars, clients, loops, historyVars>>
                ELSE NewBlockBody(t, e0)
       [] t.pc = "template" -> NewBlockBody(t, env)
       [] OTHER ->
            /\ env' = [env EXCEPT !.chain = Append(@, t.block), !.daPreviousTime = 1]
            /\ handlers' = handlers \ {t}
            /\ Observe(NoOutput)
            /\ SetHistory(HistoryAfterWrite(0, {}, socketData,
                                            InProgress(handlers \ {t}, loops)))
            /\ UNCHANGED <<snapshotVars, clients, loops>>
  /\ UNCHANGED <<wss, config, extraInitProperties, frames, nextEv, nFrames>>
\* ----------------------------------------------------------------- inputs
WantFrame(data) == [action |-> "want", data |-> data]
\* the frames clients send under Spec
Frames ==
  { WantFrame(<<"blocks">>),
    WantFrame(<<"blocks", "stats">>),
    [action |-> "init"],
    "track-address" :> Addr1,
    ("track-tx" :> TxidA) @@ ("watch-mempool" :> TRUE) }

\* every sequence over the set S of length at most n
SeqsUpTo(S, n) == UNION {[1..k -> S] : k \in 0..n}
SpkUpper == <<"0", "0", "1", "4", "A", "A">>
BadSpk == <<"z", "z">>
WantFrames ==
  { WantFrame(data) : data \in { << >>, <<"blocks">>, <<"stats">>,
                                 <<"mempool-blocks", "stats">>, <<"live-2h-chart", "bogus">>,
                                 <<"blocks", "mempool-blocks", "live-2h-chart", "stats", "tomahawk">> } }
  \cup { WantFrame(<<"blocks">>) @@ ("refresh-blocks" :> TRUE),
         WantFrame(<<"stats">>) @@ ("refresh-blocks" :> FALSE),
         "refresh-blocks" :> TRUE }
\* track-addresses with up to MAX_TRACKED_ADDRESSES + 1 entries: valid,
\* invalid and repeated ones, and two spellings of one bech32 address
AddressFrames ==
  { "track-addresses" :> a :
      a \in SeqsUpTo({Addr1, Addr2, Addr3, BadAddr}, MAX_TRACKED_ADDRESSES + 1)
            \cup {<<Addr1, Addr1Upper>>, <<Addr1, Addr1Upper, Addr2>>} }
SpkFrames ==
  { "track-scriptpubkeys" :> a :
      a \in SeqsUpTo({Spk1, Spk2, SpkUpper, BadSpk}, MAX_TRACKED_ADDRESSES + 1) }
\* the frames clients send under SpecTrack: for every tracking key a value its
\* validator accepts, values it refuses, and the empty string
Txid63 == Rep("a", 63)
TxidNonHex == Rep("a", 63) \o <<"g">>
BadAsset == Rep("d", 65)
Market == <<"b", "t", "c", "_", "u", "s", "d">>
BadMarket == <<"B", "T", "C", "_", "u", "s", "d">>
DonationId == Rep("d", 22)
BadDonationId == Rep("d", 21)
TrackFrames ==
  { "track-tx" :> v : v \in {TxidA, TxidB, Txid63, TxidNonHex, << >>} }
  \cup { ("track-tx" :> v) @@ ("watch-mempool" :> TRUE) : v \in {TxidA, TxidB} }
  \cup { "track-address" :> v :
           v \in {Addr1, Addr1Upper, Addr2, CompressedKey, CompressedKeyScript,
                  UncompressedKey, BadAddr, << >>} }
  \cup { "track-addresses" :> <<CompressedKey, Addr1Upper>> }
  \cup { "track-asset" :> v : v \in {AssetId, BadAsset} }
  \cup { "track-mempool-block" :> v : v \in {JNum(0), JNum(1), JNum(-1), JStr(<<"0">>)} }
  \cup { "track-rbf" :> v : v \in {"all", "fullRbf", "bogus"} }
  \cup { "track-bisq-market" :> v : v \in {Market, BadMarket} }
  \cup { "track-donation" :> v : v \in {DonationId, BadDonationId} }
\* the frames clients send under SpecFrames
AllFrames == Frames \cup WantFrames \cup AddressFrames \cup SpkFrames

\* ------------------------------------------------------------------- Init
Configs ==
  { [BACKEND |-> "esplora", ADVANCED_GBT_MEMPOOL |-> FALSE],
    [BACKEND |-> "bitcoind", ADVANCED_GBT_MEMPOOL |-> TRUE] }
Init ==
  /\ wss = FALSE
  /\ config \in Configs
  /\ extraInitProperties = << >>
  /\ socketData = << >>
  /\ serializedInitData = "{}"
  /\ clients = [c \in ClientIds |-> NoSession]
  /\ env = [chain |-> << >>, mempool |-> {}, template |-> {}, replacedBy |-> << >>,
            delta |-> [added |-> {}, removed |-> {}], inSync |-> TRUE,
            prices |-> 0, loadingIndicators |-> 0, daPreviousTime |-> 0,
            donation |-> Null]
  /\ handlers = {}
  /\ loops = {}
  /\ frames = {}
  /\ sent = [c \in ClientIds |-> << >>]
  /\ delivered = [c \in ClientIds |-> 0]
  /\ lastFrame = << >>
  /\ thrown = ""
  /\ nextEv = 1
  /\ nFrames = 0
  /\ lastWrite = 0
  /\ pending = << >>
  /\ sAtRest = << >>

Next ==
  \/ setWebsocketServer
  \/ \E property \in ExtraProperties, value \in ExtraValues : setExtraInitData(property, value)
  \/ \E c \in ClientIds : Connection(c)
  \/ \E c \in ClientIds : Close(c)
  \/ \E c \in ClientIds, f \in Frames : HandleMessage(c, f)
  \/ \E t \in frames, ok \in BOOLEAN : ResumeMessage(t, ok)
  \/ \E id \in DonationIds : handleNewDonation(id)
  \/ \E indicators \in {1} : handleLoadingChanged(indicators)
  \/ \E rates \in {1} : handleNewConversionRates(rates)
  \/ handleNewStatistic(JNum(1))
  \/ \E h \in EventHandlers : ThrowsUnbound(h)
  \/ handleReorg
  \/ \E added \in SUBSET TxNames, deleted \in SUBSET TxNames : handleMempoolChange(added, deleted)
  \/ \E t \in handlers : ResumeMempoolChange(t)
  \/ \E t \in loops, ok \in BOOLEAN : ResumeClient(t, ok)
  \/ \E mined \in BlockContents : handleNewBlock(mined)
  \/ \E t \in handlers : ResumeNewBlock(t)

Spec == Init /\ [][Next]_vars

\* the tracking frames against a mempool that changes
NextTrack ==
  \/ setWebsocketServer
  \/ \E c \in ClientIds : Connection(c)
  \/ \E c \in ClientIds, f \in TrackFrames : HandleMessage(c, f)
  \/ \E t \in frames, ok \in BOOLEAN : ResumeMessage(t, ok)
  \/ \E added \in SUBSET TxNames, deleted \in SUBSET TxNames : handleMempoolChange(added, deleted)
  \/ \E t \in handlers : ResumeMempoolChange(t)
  \/ \E t \in loops, ok \in BOOLEAN : ResumeClient(t, ok)

SpecTrack == Init /\ [][NextTrack]_vars

\* the frame handler alone: sockets connect and send frames, no event arrives
NextFrames ==
  \/ setWebsocketServer
  \/ \E c \in ClientIds : Connection(c)
  \/ \E c \in ClientIds, f \in AllFrames : HandleMessage(c, f)
  \/ \E c \in ClientIds, m \in Malformed : HandleMalformed(c, m)
  \/ \E t \in frames, ok \in BOOLEAN : ResumeMessage(t, ok)

SpecFrames == Init /\ [][NextFrames]_vars

\* want frames against every setting of the subscription flags: a session a
\* client has reached with frames before, with no tracking slot set or with
\* every one set
TrackingSession ==
  [NewSession EXCEPT !.trackTx = TxidA, !.trackMempoolTx = TxidB,
                     !.trackAddress = Addr1,
                     !.trackAddresses = <<BuildAddressMap(<<Addr2>>, << >>)>>,
                     !.trackScriptpubkeys = <<BuildSpks(<<Spk1>>)>>,
                     !.trackAsset = AssetId, !.trackMempoolBlock = <<0>>,
                     !.trackRbf = "all", !.trackRbfSummary = TRUE,
                     !.trackDonation = DonationId, !.trackBisqMarket = Market]
Sessions ==
  { [base EXCEPT !.want = [sub \in Wantable |-> sub \in on],
                 !.wants = (on # {}) \/ wanted] :
      base \in {NewSession, TrackingSession}, on \in SUBSET Wantable, wanted \in BOOLEAN }
\* a want frame for every set of classes, listed in the order of wantable
SubsetFrames ==
  { WantFrame(SelectSeq(wantable, LAMBDA sub : sub \in on)) : on \in SUBSET Wantable }
\* the state once the server is set, every socket has reached a session of ss
\* and the block store has loaded one of chains
InitStored(ss, chains) ==
  /\ wss = TRUE
  /\ config \in Configs
  /\ extraInitProperties = << >>
  /\ socketData = << >>
  /\ serializedInitData = "{}"
  /\ clients \in [ClientIds -> ss]
  /\ env \in {[chain |-> chain, mempool |-> {}, template |-> {}, replacedBy |-> << >>,
               delta |-> [added |-> {}, removed |-> {}], inSync |-> TRUE,
               prices |-> 0, loadingIndicators |-> 0,
               daPreviousTime |-> IF chain = << >> THEN 0 ELSE 1,
               donation |-> Null] : chain \in chains}
  /\ handlers = {}
  /\ loops = {}
  /\ frames = {}
  /\ sent = [c \in ClientIds |-> << >>]
  /\ delivered = [c \in ClientIds |-> 0]
  /\ lastFrame = << >>
  /\ thrown = ""
  /\ nextEv = 1
  /\ nFrames = 0
  /\ lastWrite = 0
  /\ pending = << >>
  /\ sAtRest = << >>
\* the state once the server is set and every socket has reached a session of
\* ss, before the block store holds a block
InitFrom(ss) == InitStored(ss, {<< >>})
InitWant == InitFrom(Sessions)
NextWant == \E c \in ClientIds, f \in SubsetFrames : HandleMessage(c, f)
SpecWant == InitWant /\ [][NextWant]_vars

\* the events against sessions that subscribe and track: a socket that has set
\* no slot, one that has set every slot, and one that watches the confirmed
\* transaction P and the address it paid, each under every setting of three
\* subscription flags; a block holds nothing, A or B
SpendWatcher == [NewSession EXCEPT !.trackTx = TxidP, !.trackAddress = Addr3]
EventFlags == {"stats", "mempool-blocks", "blocks"}
EventSessions ==
  { [base EXCEPT !.want = [sub \in Wantable |-> sub \in on], !.wants = on # {}] :
      base \in {NewSession, TrackingSession, SpendWatcher}, on \in SUBSET EventFlags }
InitEvents == InitFrom(EventSessions)
EventBlocks == {{}, {"A"}, {"B"}}
NextEvents ==
  \/ handleReorg
  \/ \E added \in SUBSET TxNames, deleted \in SUBSET TxNames : handleMempoolChange(added, deleted)
  \/ \E t \in handlers : ResumeMempoolChange(t)
  \/ \E t \in loops, ok \in BOOLEAN : ResumeClient(t, ok)
  \/ \E mined \in EventBlocks : handleNewBlock(mined)
  \/ \E t \in handlers : ResumeNewBlock(t)
SpecEvents == InitEvents /\ [][NextEvents]_vars

\* the events that carry one pre-serialized payload, against every setting of
\* the subscription flags, with no tracking slot set or with every slot set
OtherDonationId == Rep("e", 22)
NextSimple ==
  \/ \E id \in {DonationId, OtherDonationId} : handleNewDonation(id)
  \/ \E indicators \in {1, 2} : handleLoadingChanged(indicators)
  \/ \E rates \in {1, 2} : handleNewConversionRates(rates)
  \/ \E stats \in {JNum(1), JNum(2)} : handleNewStatistic(stats)
SpecSimple == InitWant /\ [][NextSimple]_vars

\* frames with keys the handler does not know, and the frames of one key,
\* against sessions with their flags and slots set
UnknownFrames ==
  { "foo" :> TRUE,
    ("track-block" :> TxidA) @@ ("want" :> <<"stats">>),
    "trackTx" :> TxidB }
KeyFrames ==
  UnknownFrames \cup TrackFrames
    \cup {WantFrame(<<"stats">>), [action |-> "ping"],
          [action |-> "ping"] @@ ("track-rbf" :> "all")}
NextKeys ==
  \/ \E c \in ClientIds, f \in KeyFrames : HandleMessage(c, f)
  \/ \E t \in frames, ok \in BOOLEAN : ResumeMessage(t, ok)
SpecKeys == InitEvents /\ [][NextKeys]_vars

\* the snapshot's blocks against a block store that has loaded up to MaxBlocks
\* blocks before the first event (blocks are kept across restarts): reorgs,
\* new blocks and init frames, which refresh the snapshot when it lacks a field
StoredChains ==
  { [i \in 1..k |-> [height |-> i, id |-> 0, timestamp |-> BlockTime(i)]] : k \in 0..MaxBlocks }
InitStore == InitStored(EventSessions, StoredChains)
NextStore ==
  \/ handleReorg
  \/ handleNewBlock({})
  \/ \E t \in handlers : ResumeNewBlock(t)
  \/ \E c \in ClientIds : HandleMessage(c, [action |-> "init"])
SpecStore == InitStore /\ [][NextStore]_vars

\* a socket that asks to be told when a transaction it could not find arrives,
\* against a mempool that changes; every await settles in the end, the
\* upstream lookups by resolving or by throwing, so each resumption is weakly
\* fair, while frames and mempool changes arrive as they please
WatchFrames == { ("track-tx" :> v) @@ ("watch-mempool" :> TRUE) : v \in {TxidA, TxidB} }
InitWatch == InitFrom({NewSession})
NextWatch ==
  \/ \E c \in ClientIds, f \in WatchFrames : HandleMessage(c, f)
  \/ \E t \in frames, ok \in BOOLEAN : ResumeMessage(t, ok)
  \/ \E added \in SUBSET TxNames, deleted \in SUBSET TxNames : handleMempoolChange(added, deleted)
  \/ \E t \in handlers : ResumeMempoolChange(t)
  \/ \E t \in loops, ok \in BOOLEAN : ResumeClient(t, ok)
\* the resumptions, each named by what it does to the set of suspended tasks:
\* under NextWatch a step takes a frame handler out of `frames` exactly when it
\* is a step of ResumeMessage, a handler out of `handlers` exactly when it is
\* a step of ResumeMempoolChange, and a callback out of `loops` (to drop it or
\* to put it back at its next await) exactly when it is a step of ResumeClient
FrameSettles == \E t \in frames : frames' = frames \ {t}
HandlerSettles == \E t \in handlers : handlers' = handlers \ {t}
LoopSettles == \E t \in loops : loops' = loops \ {t} \/ t \notin loops'
SpecWatch ==
  /\ InitWatch
  /\ [][NextWatch]_vars
  /\ WF_frames(FrameSettles)
  /\ WF_handlers(HandlerSettles)
  /\ WF_loops(LoopSettles)

\* every event against a socket that has set nothing and one that has set
\* every tracking slot and every flag an event reads, while the sockets send
\* frames that ask to watch for a transaction
SessionStarts ==
  { NewSession,
    [TrackingSession EXCEPT !.want = [sub \in Wantable |-> sub \in EventFlags],
                            !.wants = TRUE] }
InitSession == InitFrom(SessionStarts)
NextSession ==
  \/ \E id \in {DonationId, OtherDonationId} : handleNewDonation(id)
  \/ \E indicators \in {1} : handleLoadingChanged(indicators)
  \/ \E rates \in {1} : handleNewConversionRates(rates)
  \/ handleNewStatistic(JNum(1))
  \/ handleReorg
  \/ \E added \in SUBSET TxNames, deleted \in SUBSET TxNames : handleMempoolChange(added, deleted)
  \/ \E t \in handlers : ResumeMempoolChange(t)
  \/ \E t \in loops, ok \in BOOLEAN : ResumeClient(t, ok)
  \/ \E mined \in BlockContents : handleNewBlock(mined)
  \/ \E t \in handlers : ResumeNewBlock(t)
  \/ \E c \in ClientIds, f \in WatchFrames : HandleMessage(c, f)
  \/ \E t \in frames, ok \in BOOLEAN : ResumeMessage(t, ok)
SpecSession == InitSession /\ [][NextSession]_vars

\* ------------------------------------------------------------- properties
\* the response the last step sent to client c (empty when it sent none), and
\* the frame of the last step
StepResponse(c) ==
  LET rs == SelectSeq(sent[c], LAMBDA m : m.kind = "response")
  IN  IF rs = << >> THEN << >> ELSE rs[1].resp
FrameSteps == {lastFrame[i] : i \in DOMAIN lastFrame}
SeededKeys == {"blocks", "mempool-blocks", "mempoolInfo", "vBytesPerSecond", "fees", "da"}

\* C1: once the handler has taken a frame with action want and an array data,
\* every wantable class is on for that client exactly when data lists it,
\* whatever the flag was before.
C1_WantFlagsFollowData ==
  \A h \in FrameSteps :
    (h.began /\ IsWant(h.frame)) =>
      \A sub \in Wantable : clients[h.c].want[sub] = InSeq(sub, h.frame["data"])
\* a want frame has turned a class off that was on and another on that was off
C1_Witness ==
  \E h \in FrameSteps :
    /\ h.began /\ IsWant(h.frame)
    /\ \E sub \in Wantable : h.before.want[sub] /\ ~clients[h.c].want[sub]
    /\ \E sub \in Wantable : ~h.before.want[sub] /\ clients[h.c].want[sub]

\* C2: the response to a want frame has the key blocks exactly when
\* want-blocks went from off to on or refresh-blocks is truthy, mempool-blocks
\* exactly when want-mempool-blocks went from off to on, and mempoolInfo,
\* vBytesPerSecond, fees and da exactly when want-stats went from off to on;
\* each such key has the value the shared snapshot holds. A frame with a
\* truthy refresh-blocks that is not an init frame is answered with blocks.
C2_SeedsOnlyNewClasses ==
  \A h \in FrameSteps :
    LET resp == StepResponse(h.c)
        newly(sub) == ~h.before.want[sub] /\ clients[h.c].want[sub]
    IN  /\ (h.began /\ h.ended /\ IsWant(h.frame)) =>
             /\ ObjHas(resp, "blocks") <=> (newly("blocks") \/ Truthy(h.frame, "refresh-blocks"))
             /\ ObjHas(resp, "mempool-blocks") <=> newly("mempool-blocks")
             /\ \A k \in {"mempoolInfo", "vBytesPerSecond", "fees", "da"} :
                  ObjHas(resp, k) <=> newly("stats")
             /\ \A k \in SeededKeys :
                  ObjHas(resp, k) => ObjGet(resp, k) = ObjGet(socketData, k)
        /\ (h.began /\ h.ended /\ Truthy(h.frame, "refresh-blocks") /\ ~IsInit(h.frame)) =>
             ObjHas(resp, "blocks") /\ ObjGet(resp, "blocks") = ObjGet(socketData, "blocks")
\* a want frame lists want-blocks, which was on, and want-stats, which was
\* off, while the snapshot holds fees: the response has fees and no blocks
C2_Witness ==
  \E h \in FrameSteps :
    /\ h.began /\ h.ended /\ IsWant(h.frame)
    /\ h.before.want["blocks"] /\ InSeq("blocks", h.frame["data"])
    /\ ~h.before.want["stats"] /\ clients[h.c].want["stats"]
    /\ ObjHas(socketData, "fees")
    /\ ObjHas(StepResponse(h.c), "fees")
    /\ ~ObjHas(StepResponse(h.c), "blocks")

\* C3: when the handler has run an init frame to its end while the block store
\* holds no block and the snapshot holds no block, it has sent that client
\* nothing.
C3_InitGatedOnBlocks ==
  \A h \in FrameSteps :
    (/\ h.ended /\ IsInit(h.frame)
     /\ env.chain = << >>
     /\ ObjGet(socketData, "blocks") \in {Undefined, Stringify(JArr(<< >>))}) =>
      sent[h.c] = << >>
\* an init frame with no block known is answered with serializedInitData
C3_Witness ==
  \E h \in FrameSteps :
    /\ h.ended /\ IsInit(h.frame)
    /\ env.chain = << >>
    /\ ObjGet(socketData, "blocks") = Stringify(JArr(<< >>))
    /\ \E i \in DOMAIN sent[h.c] :
         sent[h.c][i].kind = "init" /\ sent[h.c][i].text = serializedInitData

\* C4: serializedInitData is in every state the object of the fields socketData
\* holds, in their order, each with its value; what an init frame is sent is
\* that string.
C4_InitBlobMatchesSnapshot ==
  /\ getSerializedInitData = serializeResponse(socketData)
  /\ \A c \in ClientIds : \A i \in DOMAIN sent[c] :
       sent[c][i].kind = "init" => sent[c][i].text = serializeResponse(socketData)
\* an init frame is answered while the snapshot holds a registered field, a
\* field an event handler wrote and the fields of updateSocketData
C4_Witness ==
  /\ lastWrite = 0
  /\ ObjHas(socketData, "gitCommit")
  /\ ObjHas(socketData, "backendInfo")
  /\ ObjGet(socketData, "loadingIndicators") = Stringify(IndicatorsJs(1))
  /\ \E c \in ClientIds : \E i \in DOMAIN sent[c] : sent[c][i].kind = "init"

\* C5: while a mempool-change or new-block handler is suspended, no step of
\* another event handler writes the snapshot.
C5_HandlersSerialized ==
  [][\A t \in handlers :
       (lastWrite' # lastWrite /\ lastWrite' # 0) => lastWrite' = t.ev]_vars
\* a handler is suspended and the snapshot was last written by an event that
\* began after it
C5_Witness ==
  \E t \in handlers : lastWrite > t.ev

\* C6: no client is sent the message of an event after the message of an
\* event that began later.
C6_EventOrder ==
  \A c \in ClientIds : \A i \in DOMAIN sent[c] :
    sent[c][i].kind = "event" => sent[c][i].ev >= delivered[c]
\* the callback of a mempool change sends after a later event was delivered
C6_Witness ==
  \E c \in ClientIds : \E i \in DOMAIN sent[c] :
    /\ sent[c][i].kind = "event"
    /\ sent[c][i].ev < delivered[c]
    /\ ObjHas(sent[c][i].resp, "address-transactions")

\* C7: every message an event handler sends goes to a socket that is open at
\* the time of the send.
C7_SendsOnlyWhenOpen ==
  \A c \in ClientIds : \A i \in DOMAIN sent[c] :
    sent[c][i].kind = "event" => sent[c][i].open
\* a per-client callback sends on a socket that closed while it was suspended
C7_Witness ==
  \E c \in ClientIds : \E i \in DOMAIN sent[c] :
    /\ sent[c][i].kind = "event"
    /\ ~sent[c][i].open
    /\ clients[c].readyState = "CLOSED"

\* C8: what a want frame is seeded with, and what an init frame is sent, are
\* the values the snapshot held when the last completed event finished: no
\* value an event still in progress wrote.
C8_SeededFromCompletedEvents ==
  \A h \in FrameSteps :
    /\ (h.began /\ h.ended /\ IsWant(h.frame)) =>
         \A k \in SeededKeys :
           ObjHas(StepResponse(h.c), k) => ObjGet(StepResponse(h.c), k) = ObjGet(sAtRest, k)
    /\ (h.ended /\ IsInit(h.frame)) =>
         \A i \in DOMAIN sent[h.c] :
           sent[h.c][i].kind = "init" =>
             \A k \in DOMAIN pending :
               ObjGet(sent[h.c][i].resp, k) = ObjGet(sAtRest, k)
\* a want frame is seeded with the blocks a new-block handler wrote that has
\* not finished
C8_Witness ==
  \E h \in FrameSteps : \E t \in handlers :
    /\ h.began /\ h.ended /\ IsWant(h.frame)
    /\ t.kind = "block" /\ t.pc = "stats2"
    /\ ObjHas(StepResponse(h.c), "blocks")
    /\ ObjGet(StepResponse(h.c), "blocks") =
         Stringify(BlocksJs(SliceLast(Append(env.chain, t.block), INITIAL_BLOCKS_AMOUNT)))
    /\ ObjGet(StepResponse(h.c), "blocks") # ObjGet(sAtRest, "blocks")

\* C9: no session tracks more than MAX_TRACKED_ADDRESSES addresses or more
\* than MAX_TRACKED_ADDRESSES scriptpubkeys.
C9_TrackedWithinLimit ==
  \A c \in ClientIds :
    /\ clients[c].trackAddresses # Null =>
         Len(clients[c].trackAddresses[1]) <= MAX_TRACKED_ADDRESSES
    /\ clients[c].trackScriptpubkeys # Null =>
         Len(clients[c].trackScriptpubkeys[1]) <= MAX_TRACKED_ADDRESSES
\* a session that tracks MAX_TRACKED_ADDRESSES scriptpubkeys has sent a frame
\* with more hexadecimal scriptpubkeys than that
C9_Witness ==
  \E h \in FrameSteps :
    /\ h.ended /\ Has(h.frame, "track-scriptpubkeys")
    /\ Len(BuildSpks(h.frame["track-scriptpubkeys"])) > MAX_TRACKED_ADDRESSES
    /\ h.before.trackScriptpubkeys # Null
    /\ Len(h.before.trackScriptpubkeys[1]) = MAX_TRACKED_ADDRESSES

\* the entries of the array that the address validator accepts, as a set
AcceptedEntries(a) == {a[i] : i \in {j \in DOMAIN a : testAddress(a[j]) # Null}}
\* C10 as stated: after a frame whose track-addresses array has more than
\* MAX_TRACKED_ADDRESSES entries, the slot is null and the response has
\* track-addresses-error.
C10_AsStated ==
  \A h \in FrameSteps :
    (/\ h.ended /\ Has(h.frame, "track-addresses")
     /\ Len(h.frame["track-addresses"]) > MAX_TRACKED_ADDRESSES) =>
      /\ clients[h.c].trackAddresses = Null
      /\ ObjHas(StepResponse(h.c), "track-addresses-error")
\* C10: after a frame whose track-addresses array holds more than
\* MAX_TRACKED_ADDRESSES different entries that the address validator accepts,
\* the slot is null and the response has track-addresses-error; with at most
\* that many, the response has no such key, however long the array is.
C10_LimitCountsAcceptedEntries ==
  \A h \in FrameSteps :
    (h.ended /\ Has(h.frame, "track-addresses")) =>
      IF Cardinality(AcceptedEntries(h.frame["track-addresses"])) > MAX_TRACKED_ADDRESSES
      THEN /\ clients[h.c].trackAddresses = Null
           /\ ObjHas(StepResponse(h.c), "track-addresses-error")
      ELSE ~ObjHas(StepResponse(h.c), "track-addresses-error")
\* an array with more accepted entries than the limit is refused with the
\* error and clears a slot that held addresses
C10_Witness ==
  \E h \in FrameSteps :
    /\ h.ended /\ Has(h.frame, "track-addresses")
    /\ Cardinality(AcceptedEntries(h.frame["track-addresses"])) > MAX_TRACKED_ADDRESSES
    /\ ObjHas(StepResponse(h.c), "track-addresses-error")
    /\ h.before.trackAddresses # Null

\* the entries of a are pairwise different
Distinct(a) == \A i, j \in 1..Len(a) : i # j => a[i] # a[j]
\* C11: a track-addresses (track-scriptpubkeys) frame whose entries are all
\* valid and pairwise different is accepted when it has exactly
\* MAX_TRACKED_ADDRESSES entries (the slot holds every one of them and the
\* response has no error key) and refused when it has one more (the slot is
\* null and the response carries the error key).
C11_LimitBoundary ==
  \A h \in FrameSteps :
    /\ (/\ h.ended /\ Has(h.frame, "track-addresses")
        /\ Distinct(h.frame["track-addresses"])
        /\ \A i \in 1..Len(h.frame["track-addresses"]) :
             testAddress(h.frame["track-addresses"][i]) # Null)
       => LET a == h.frame["track-addresses"]
          IN  /\ Len(a) = MAX_TRACKED_ADDRESSES =>
                   /\ clients[h.c].trackAddresses # Null
                   /\ \A i \in 1..Len(a) :
                        /\ ObjHas(clients[h.c].trackAddresses[1], a[i])
                        /\ ObjGet(clients[h.c].trackAddresses[1], a[i]) = testAddress(a[i])
                   /\ ~ObjHas(StepResponse(h.c), "track-addresses-error")
              /\ Len(a) = MAX_TRACKED_ADDRESSES + 1 =>
                   /\ clients[h.c].trackAddresses = Null
                   /\ ObjHas(StepResponse(h.c), "track-addresses-error")
    /\ (/\ h.ended /\ Has(h.frame, "track-scriptpubkeys")
        /\ Distinct(h.frame["track-scriptpubkeys"])
        /\ \A i \in 1..Len(h.frame["track-scriptpubkeys"]) :
             IsHex(h.frame["track-scriptpubkeys"][i]))
       => LET a == h.frame["track-scriptpubkeys"]
          IN  /\ Len(a) = MAX_TRACKED_ADDRESSES =>
                   /\ clients[h.c].trackScriptpubkeys
                        = <<[i \in 1..Len(a) |-> toLowerCase(a[i])]>>
                   /\ ~ObjHas(StepResponse(h.c), "track-scriptpubkeys-error")
              /\ Len(a) = MAX_TRACKED_ADDRESSES + 1 =>
                   /\ clients[h.c].trackScriptpubkeys = Null
                   /\ ObjHas(StepResponse(h.c), "track-scriptpubkeys-error")
\* an array of MAX_TRACKED_ADDRESSES + 1 valid, different addresses has been
\* refused after one of exactly MAX_TRACKED_ADDRESSES had filled the slot
C11_Witness ==
  \E h \in FrameSteps :
    /\ h.ended /\ Has(h.frame, "track-addresses")
    /\ Distinct(h.frame["track-addresses"])
    /\ \A i \in 1..Len(h.frame["track-addresses"]) :
         testAddress(h.frame["track-addresses"][i]) # Null
    /\ Len(h.frame["track-addresses"]) = MAX_TRACKED_ADDRESSES + 1
    /\ h.before.trackAddresses # Null
    /\ Len(h.before.trackAddresses[1]) = MAX_TRACKED_ADDRESSES
    /\ clients[h.c].trackAddresses = Null
    /\ ObjHas(StepResponse(h.c), "track-addresses-error")

\* the keys of a response that report an error
ErrorKeys == {"track-addresses-error", "track-scriptpubkeys-error"}
\* C12: a frame that carries, for a tracking key, a value the key's validator
\* refuses leaves that key's slot cleared (null, off for track-rbf) and never
\* holding the value it held before; the socket stays open and the response
\* has no error key.
C12_InvalidClearsSlot ==
  \A h \in FrameSteps :
    (h.began /\ h.ended) =>
      LET f == h.frame
          cl == clients[h.c]
      IN  /\ (Has(f, "track-tx") /\ ~IsTxid(f["track-tx"])) => cl.trackTx = Null
          /\ (Has(f, "track-address") /\ testAddress(f["track-address"]) = Null)
               => cl.trackAddress = Null
          /\ (Has(f, "track-asset") /\ ~IsTxid(f["track-asset"])) => cl.trackAsset = Null
          /\ (Has(f, "track-mempool-block") /\ ~IsBlockIndex(f["track-mempool-block"]))
               => cl.trackMempoolBlock = Null
          /\ (Has(f, "track-rbf") /\ f["track-rbf"] \notin {"all", "fullRbf"})
               => cl.trackRbf = "off"
          /\ (Has(f, "track-bisq-market") /\ ~IsBisqMarket(f["track-bisq-market"]))
               => cl.trackBisqMarket = Null
          /\ (Has(f, "track-donation") /\ Len(f["track-donation"]) # 22)
               => cl.trackDonation = Null
          /\ cl.readyState = "OPEN"
          /\ \A k \in ErrorKeys : ~ObjHas(StepResponse(h.c), k)
               \/ Has(f, "track-addresses") \/ Has(f, "track-scriptpubkeys")
\* a frame whose track-donation is not 22 characters long has left the
\* donation id of an earlier frame in the slot
C12_Witness ==
  \E h \in FrameSteps :
    /\ h.began /\ h.ended
    /\ Has(h.frame, "track-donation") /\ Len(h.frame["track-donation"]) # 22
    /\ h.before.trackDonation # Null
    /\ clients[h.c].trackDonation = h.before.trackDonation
\* a frame whose track-tx is the empty string has left the txid of an earlier
\* frame in the slot
C12_StaleTrackTx ==
  \E h \in FrameSteps :
    /\ h.began /\ h.ended
    /\ Has(h.frame, "track-tx") /\ h.frame["track-tx"] = << >>
    /\ h.before.trackTx # Null
    /\ clients[h.c].trackTx = h.before.trackTx

\* a canonical form of the address validator: a base58 address, a lowercase
\* bech32 address, or a P2PK script
IsCanonicalAddress(s) ==
  \/ IsBase58Address(s)
  \/ IsBech32With(s, Lower, Bech32Lower)
  \/ IsP2PKScript(s)
\* the slots with a validator other than the address validator
OtherSlotsValid(cl) ==
  /\ cl.trackTx = Null \/ IsTxid(cl.trackTx)
  /\ cl.trackAsset = Null \/ IsTxid(cl.trackAsset)
  /\ cl.trackMempoolBlock = Null
       \/ (Len(cl.trackMempoolBlock) = 1 /\ cl.trackMempoolBlock[1] \in Nat)
  /\ cl.trackRbf \in {"off", "all", "fullRbf"}
AcceptedAddressSteps ==
  {h \in FrameSteps : /\ h.began /\ h.ended /\ Given(h.frame, "track-address")
                      /\ clients[h.c].trackAddress # Null}
C14_ScriptRefused ==
  \E h \in FrameSteps :
    /\ h.began /\ h.ended /\ Given(h.frame, "track-address")
    /\ h.before.trackAddress = testAddress(CompressedKey)
    /\ h.frame["track-address"] = h.before.trackAddress
    /\ clients[h.c].trackAddress = Null

\* C15: a track-tx value of 64 hexadecimal characters is accepted and stored
\* in trackTx (the handler takes it out again only when the frame asks to
\* watch the mempool and the RBF cache names a replacement); a value of 63
\* hexadecimal characters, or of 64 characters that are not all hexadecimal,
\* is refused and leaves trackTx null.
C15_TrackTxNeeds64Hex ==
  \A h \in FrameSteps :
    (h.began /\ Given(h.frame, "track-tx")) =>
      LET v == h.frame["track-tx"]
      IN  IF Len(v) = 64 /\ AllIn(v, HexChar)
          THEN \/ clients[h.c].trackTx = v
               \/ /\ Truthy(h.frame, "watch-mempool")
                  /\ getReplacedBy(env, v) # Null
                  /\ clients[h.c].trackTx = Null
          ELSE clients[h.c].trackTx = Null
\* a track-tx of 63 hexadecimal characters has cleared a slot that held a
\* txid of 64
C15_Witness ==
  \E h \in FrameSteps :
    /\ h.began /\ Given(h.frame, "track-tx")
    /\ Len(h.frame["track-tx"]) = 63 /\ AllIn(h.frame["track-tx"], HexChar)
    /\ Len(h.before.trackTx) = 64
    /\ clients[h.c].trackTx = Null
\* a track-tx of 64 characters, one of them not hexadecimal, has been refused
\* and one of 64 hexadecimal characters stored
C15_NonHexRefused ==
  \E h \in FrameSteps :
    /\ h.began /\ Given(h.frame, "track-tx")
    /\ Len(h.frame["track-tx"]) = 64 /\ ~AllIn(h.frame["track-tx"], HexChar)
    /\ Len(h.before.trackTx) = 64
    /\ clients[h.c].trackTx = Null

\* the frames handled to their end that carry a track-tx of 64 hexadecimal
\* characters
ValidTrackTxSteps ==
  {h \in FrameSteps : /\ h.ended /\ Given(h.frame, "track-tx")
                      /\ Len(h.frame["track-tx"]) = 64
                      /\ AllIn(h.frame["track-tx"], HexChar)}
\* the mempool holds a transaction with this txid that has a position
PositionKnown(txid) ==
  \E n \in env.mempool : TxidOf(n) = txid /\ n \in env.template
\* C16: for a frame with a valid track-tx T, with or without watch-mempool,
\* the response contains txPosition, naming T and its position, exactly when
\* T is in the mempool and has a position when the handler looks it up.
C16_TxPositionIffPositioned ==
  \A h \in ValidTrackTxSteps :
    LET T == h.frame["track-tx"]
    IN  /\ ObjHas(StepResponse(h.c), "txPosition") <=> PositionKnown(T)
        /\ PositionKnown(T) =>
             ObjGet(StepResponse(h.c), "txPosition")
               = Stringify(JObj(<< <<"txid", JStr(T)>>,
                                   <<"position", JObj(<< <<"block", JNum(0)>>,
                                                         <<"vsize", JNum(100)>> >>)>> >>))
\* a frame without watch-mempool has been answered with the position of a
\* transaction the mempool holds
C16_Witness ==
  \E h \in ValidTrackTxSteps :
    /\ ~Has(h.frame, "watch-mempool")
    /\ PositionKnown(h.frame["track-tx"])
    /\ ObjHas(StepResponse(h.c), "txPosition")
\* a frame has been answered without txPosition for a transaction the mempool
\* holds but the template builder has not placed yet
C16_NoPositionYet ==
  \E h \in ValidTrackTxSteps :
    /\ \E n \in env.mempool : TxidOf(n) = h.frame["track-tx"]
    /\ ~PositionKnown(h.frame["track-tx"])
    /\ ~ObjHas(StepResponse(h.c), "txPosition")

\* the txid the RBF cache names as the replacement of txid, when it names one
ReplacementOf(txid) ==
  {TxidOf(env.replacedBy[n]) : n \in {x \in DOMAIN env.replacedBy : TxidOf(x) = txid}}
\* the keys an event puts in a message on behalf of the trackTx slot
TrackTxKeys == {"utxoSpent", "rbfTransaction", "rbfInfo", "txPosition", "txConfirmed"}
\* C17: a frame with a valid track-tx T and watch-mempool, handled while the
\* RBF cache names a replacement R of T, is answered with txReplaced naming R
\* and without tx, and leaves trackTx null; while trackTx is null no event
\* puts a key of the tracked transaction in a message to the client.
C17_ReplacedIsUntracked ==
  /\ \A h \in ValidTrackTxSteps :
       (/\ h.began /\ Truthy(h.frame, "watch-mempool")
        /\ ReplacementOf(h.frame["track-tx"]) # {})
       => /\ \E R \in ReplacementOf(h.frame["track-tx"]) :
               /\ ObjHas(StepResponse(h.c), "txReplaced")
               /\ ObjGet(StepResponse(h.c), "txReplaced")
                    = Stringify(JObj(<< <<"txid", JStr(R)>> >>))
          /\ ~ObjHas(StepResponse(h.c), "tx")
          /\ clients[h.c].trackTx = Null
  /\ \A c \in ClientIds :
       \A i \in 1..Len(sent[c]) :
         (sent[c][i].kind = "event" /\ clients[c].trackTx = Null)
         => \A k \in TrackTxKeys : ~ObjHas(sent[c][i].resp, k)
\* a frame watching the mempool for a replaced transaction has been answered
\* with txReplaced naming the replacement, and trackTx is null
C17_Witness ==
  \E h \in ValidTrackTxSteps :
    /\ h.began /\ Truthy(h.frame, "watch-mempool")
    /\ h.frame["track-tx"] = TxidA
    /\ ReplacementOf(TxidA) = {TxidB}
    /\ ObjHas(StepResponse(h.c), "txReplaced")
    /\ ~ObjHas(StepResponse(h.c), "tx")
    /\ clients[h.c].trackTx = Null

\* a frame with a valid track-tx and watch-mempool, taken while the RBF cache
\* names no replacement and the mempool does not hold the transaction
WatchesUnknown(h) ==
  /\ h.began /\ Given(h.frame, "track-tx") /\ Truthy(h.frame, "watch-mempool")
  /\ Len(h.frame["track-tx"]) = 64 /\ AllIn(h.frame["track-tx"], HexChar)
  /\ ReplacementOf(h.frame["track-tx"]) = {}
  /\ \A n \in env.mempool : TxidOf(n) # h.frame["track-tx"]
\* such a frame stops at the upstream lookup with trackMempoolTx untouched
StopsAtLookup ==
  \A h \in FrameSteps :
    WatchesUnknown(h) =>
      /\ ~h.ended
      /\ clients[h.c].trackMempoolTx = h.before.trackMempoolTx
      /\ \E t \in frames : t.c = h.c /\ t.frame = h.frame /\ t.await = "unknown"
\* C18 as stated: whatever the upstream lookup returns, the frame ends with
\* trackMempoolTx equal to T.
C18_AsStated ==
  [][\A t \in frames :
       (t \notin frames' /\ t.await = "unknown")
       => clients'[t.c].trackMempoolTx = t.frame["track-tx"]]_vars
\* C18: a frame with a valid track-tx T and watch-mempool, taken when the RBF
\* cache names no replacement and T is not in the mempool, looks T up
\* upstream; when the lookup fails the frame ends with trackMempoolTx equal
\* to T, and when it resolves the response carries tx for T and
\* trackMempoolTx is left as it was.
C18_SetWhenLookupFails ==
  /\ []StopsAtLookup
  /\ [][\A t \in frames :
          (t \notin frames' /\ t.await = "unknown")
          => IF ObjHas(StepResponse(t.c)', "tx")
             THEN /\ ObjGet(StepResponse(t.c)', "tx")
                       = Stringify(JObj(<< <<"txid", JStr(t.frame["track-tx"])>>,
                                           <<"prevouts", JBool(TRUE)>> >>))
                  /\ clients'[t.c].trackMempoolTx = clients[t.c].trackMempoolTx
             ELSE clients'[t.c].trackMempoolTx = t.frame["track-tx"]]_vars
\* the lookup of a watched transaction has failed and the frame has ended
\* with its txid in trackMempoolTx, which was null
C18_Witness ==
  \E h \in FrameSteps :
    /\ h.ended /\ ~h.began /\ Truthy(h.frame, "watch-mempool")
    /\ ~ObjHas(StepResponse(h.c), "tx")
    /\ h.before.trackMempoolTx = Null
    /\ clients[h.c].trackMempoolTx = h.frame["track-tx"]
\* the lookup has resolved and the frame has ended with tx in the response
\* and trackMempoolTx still null
C18_ResolvedNotWatched ==
  \E h \in FrameSteps :
    /\ h.ended /\ ~h.began /\ Truthy(h.frame, "watch-mempool")
    /\ ObjHas(StepResponse(h.c), "tx")
    /\ \A n \in env.mempool : TxidOf(n) # h.frame["track-tx"]
    /\ clients[h.c].trackMempoolTx = Null

\* a message of an event to client c, sent by this step, that carries tx for txid
TxSentNow(c, txid) ==
  \E i \in 1..Len(sent'[c]) :
    /\ sent'[c][i].kind = "event"
    /\ ObjHas(sent'[c][i].resp, "tx")
    /\ \/ ObjGet(sent'[c][i].resp, "tx") = Stringify(FullTxJs(txid))
       \/ \E n \in TxNames : /\ TxidOf(n) = txid
                             /\ ObjGet(sent'[c][i].resp, "tx") = Stringify(TxJs(env', n))
\* the callback of client c goes on after this step with tx in the response it
\* is gathering
TxGathered(c) == \E t \in loops' : t.c = c /\ ObjHas(t.resp, "tx")
\* C19: a step of a mempool delta leaves the trackMempoolTx of an open client
\* as it was, or clears it with a tx message for that txid sent to the client
\* (or held in the response the client's callback sends at its end); the slot
\* is never cleared by a delta without tx.
C19_ClearedOnlyWithTx ==
  [][\A c \in ClientIds :
       (/\ clients[c].readyState = "OPEN" /\ clients'[c].readyState = "OPEN"
        /\ clients[c].trackMempoolTx # Null
        /\ frames' = frames /\ nFrames' = nFrames)
       => \/ clients'[c].trackMempoolTx = clients[c].trackMempoolTx
          \/ /\ clients'[c].trackMempoolTx = Null
             /\ TxSentNow(c, clients[c].trackMempoolTx) \/ TxGathered(c)]_vars
\* the callback of an open client stands at the lookup of the transaction its
\* trackMempoolTx names, which the delta added
C19_Witness ==
  \E t \in loops :
    /\ t.stage = "mempoolTx"
    /\ clients[t.c].readyState = "OPEN"
    /\ clients[t.c].trackMempoolTx = TxidOf(t.txs[1])

\* C20: a frame that carries track-tx without watch-mempool, whether it sets,
\* changes or clears trackTx, leaves trackMempoolTx as it found it; the two
\* slots may hold different txids at once.
C20_SlotsIndependent ==
  \A h \in FrameSteps :
    (h.began /\ h.ended /\ Has(h.frame, "track-tx") /\ ~Truthy(h.frame, "watch-mempool"))
    => /\ clients[h.c].trackMempoolTx = h.before.trackMempoolTx
       /\ clients[h.c].trackTx
            = IF h.frame["track-tx"] = << >> THEN h.before.trackTx
              ELSE IF Len(h.frame["track-tx"]) = 64 /\ AllIn(h.frame["track-tx"], HexChar)
              THEN h.frame["track-tx"] ELSE Null
\* a frame has set trackTx to one txid while trackMempoolTx holds another
C20_Witness ==
  \E h \in FrameSteps :
    /\ h.began /\ h.ended /\ Has(h.frame, "track-tx") /\ ~Truthy(h.frame, "watch-mempool")
    /\ h.before.trackMempoolTx = TxidA
    /\ clients[h.c].trackMempoolTx = TxidA
    /\ clients[h.c].trackTx = TxidB
\* a frame has cleared trackTx while trackMempoolTx stays set
C20_ClearedAlone ==
  \E h \in FrameSteps :
    /\ h.began /\ h.ended /\ Has(h.frame, "track-tx") /\ ~Truthy(h.frame, "watch-mempool")
    /\ h.before.trackTx # Null /\ h.before.trackMempoolTx # Null
    /\ clients[h.c].trackTx = Null
    /\ clients[h.c].trackMempoolTx = h.before.trackMempoolTx

\* the compressed transactions of projected block index, an empty list when
\* the mempool has no such block
ProjectedTxsJs(index) ==
  IF index = 0 /\ env.template # {}
  THEN JArr([i \in 1..Cardinality(env.template) |->
               JArr(<<JStr(TxidOf(SeqOfNames(env.template)[i]))>>)])
  ELSE JArr(<< >>)
\* C21: a track-mempool-block value that is a non-negative integer is stored
\* in trackMempoolBlock and answered with projected-block-transactions holding
\* that index and the compressed transactions of that projected block (an
\* empty list when there is no such block); a negative or non-integer value
\* clears the slot and is answered without projected-block-transactions.
C21_TrackMempoolBlock ==
  \A h \in FrameSteps :
    (h.began /\ h.ended /\ Has(h.frame, "track-mempool-block")) =>
      LET v == h.frame["track-mempool-block"]
      IN  IF v.t = "num" /\ v.v >= 0
          THEN /\ clients[h.c].trackMempoolBlock = <<v.v>>
               /\ ObjHas(StepResponse(h.c), "projected-block-transactions")
               /\ ObjGet(StepResponse(h.c), "projected-block-transactions")
                    = Stringify(JObj(<< <<"index", JNum(v.v)>>,
                                        <<"blockTransactions", ProjectedTxsJs(v.v)>> >>))
          ELSE /\ clients[h.c].trackMempoolBlock = Null
               /\ ~ObjHas(StepResponse(h.c), "projected-block-transactions")
\* index 0 has been stored and answered with the transaction the projected
\* block holds
C21_Witness ==
  \E h \in FrameSteps :
    /\ h.began /\ h.ended /\ Has(h.frame, "track-mempool-block")
    /\ h.frame["track-mempool-block"] = JNum(0)
    /\ env.template # {}
    /\ clients[h.c].trackMempoolBlock = <<0>>
    /\ ObjHas(StepResponse(h.c), "projected-block-transactions")
\* -1 has cleared a slot that held an index
C21_NegativeClears ==
  \E h \in FrameSteps :
    /\ h.began /\ h.ended /\ Has(h.frame, "track-mempool-block")
    /\ h.frame["track-mempool-block"] = JNum(-1)
    /\ h.before.trackMempoolBlock # Null
    /\ clients[h.c].trackMempoolBlock = Null
\* an index beyond the projected blocks has been answered with an empty list
C21_NoSuchBlock ==
  \E h \in FrameSteps :
    /\ h.began /\ h.ended /\ Has(h.frame, "track-mempool-block")
    /\ h.frame["track-mempool-block"] = JNum(1)
    /\ env.template # {}
    /\ ObjGet(StepResponse(h.c), "projected-block-transactions")
         = "{\"index\":1,\"blockTransactions\":[]}"

\* C22: a frame that JSON.parse refuses, or whose handling throws (the JSON
\* value null), closes the socket; no response and no init data is sent for
\* it, and the session is otherwise as the frame found it.
C22_MalformedCloses ==
  \A h \in FrameSteps :
    Has(h.frame, "malformed") =>
      /\ h.before.readyState = "OPEN"
      /\ clients[h.c] = [h.before EXCEPT !.readyState = "CLOSED"]
      /\ sent[h.c] = << >>
\* the JSON value null has closed the socket of a client that had subscribed
C22_Witness ==
  \E h \in FrameSteps :
    /\ Has(h.frame, "malformed") /\ h.frame["malformed"] = "null"
    /\ h.before.wants
    /\ clients[h.c].readyState = "CLOSED"
    /\ sent[h.c] = << >>

\* the classes a session has on, and the classes a want frame lists
OnIn(cl) == {sub \in Wantable : cl.want[sub]}
Listed(f) == {sub \in Wantable : InSeq(sub, f["data"])}
\* every subscription flag and every tracking slot of a equals that of b
SameSubscriptions(a, b) ==
  /\ a.want = b.want
  /\ a.trackTx = b.trackTx /\ a.trackMempoolTx = b.trackMempoolTx
  /\ a.trackAddress = b.trackAddress /\ a.trackAddresses = b.trackAddresses
  /\ a.trackScriptpubkeys = b.trackScriptpubkeys /\ a.trackAsset = b.trackAsset
  /\ a.trackMempoolBlock = b.trackMempoolBlock /\ a.trackRbf = b.trackRbf
  /\ a.trackRbfSummary = b.trackRbfSummary /\ a.trackDonation = b.trackDonation
  /\ a.trackBisqMarket = b.trackBisqMarket
\* the frame h1 turned one class on over the session it found, and the frame
\* h2, coming next from the same client, lists the classes of that session
OnThenOff(h1, h2) ==
  /\ h1.began /\ h1.ended /\ h2.began /\ h2.ended /\ h1.c = h2.c
  /\ IsWant(h1.frame) /\ IsWant(h2.frame)
  /\ Listed(h2.frame) = OnIn(h1.before)
  /\ \E sub \in Wantable \ OnIn(h1.before) :
       Listed(h1.frame) = OnIn(h1.before) \cup {sub}
\* C23: for every session s and every class c that is off in s, a want frame
\* listing the classes on in s and c, followed by a want frame listing the
\* classes on in s, leaves every subscription flag and every tracking slot
\* as it was in s.
C23_OnOffRestores ==
  [][\A h1 \in FrameSteps : \A h2 \in FrameSteps' :
       OnThenOff(h1, h2) => SameSubscriptions(clients'[h2.c], h1.before)]_vars
\* the second of two want frames has turned one class off over a session that
\* keeps other classes on and has its tracking slots set
C23_Witness ==
  \E h \in FrameSteps :
    /\ nFrames = 2 /\ h.began /\ h.ended /\ IsWant(h.frame)
    /\ \E sub \in Wantable : h.before.want[sub] /\ ~clients[h.c].want[sub]
                             /\ OnIn(h.before) = OnIn(clients[h.c]) \cup {sub}
    /\ OnIn(clients[h.c]) # {}
    /\ clients[h.c].trackTx = TxidA /\ clients[h.c].trackRbfSummary

\* the messages built by serializeResponse that the last step handed to client c
Serialized(c) == SelectSeq(sent[c], LAMBDA m : m.kind \in {"response", "event"})
\* C24: every response map handed to serializeResponse, by the frame handler
\* or by an event handler, holds a serialized JSON value for each of its
\* keys, never undefined, whatever fields the snapshot S has; so every
\* message sent is a JSON object.
C24_ResponsesDefined ==
  \A c \in ClientIds :
    \A i \in 1..Len(Serialized(c)) :
      \A j \in 1..Len(Serialized(c)[i].resp) :
        Serialized(c)[i].resp[j][2] # Undefined
\* a want frame taken while S has no blocks field has been answered with the
\* text {"blocks": undefined}
C24_Witness ==
  \E h \in FrameSteps :
    /\ h.ended /\ IsWant(h.frame)
    /\ ~ObjHas(socketData, "blocks")
    /\ clients[h.c].readyState = "OPEN"
    /\ ObjHas(StepResponse(h.c), "blocks")
    /\ serializeResponse(StepResponse(h.c)) = "{\"blocks\": undefined}"

\* ------------------------------------------------------------ mempool delta
\* the step runs $handleMempoolChange from its start, or from the template
\* update on, to the first await of every per-client callback
DeltaBodyStep ==
  \/ nextEv' # nextEv /\ env'.mempool # env.mempool /\ handlers' = handlers
  \/ \E t \in handlers : t.kind = "mempool" /\ t \notin handlers'
\* the step resumes one per-client callback
DeltaResumeStep == loops' # loops /\ handlers' = handlers /\ nextEv' = nextEv
DeltaStep == DeltaBodyStep \/ DeltaResumeStep
\* the callback of client c has run in the step and has reached its end
RanToEnd(c) ==
  /\ \/ DeltaBodyStep /\ clients[c].readyState = "OPEN"
     \/ DeltaResumeStep /\ \E t \in loops \ loops' : t.c = c
  /\ ~\E t \in loops' \ loops : t.c = c
StatsKeys == {"mempoolInfo", "vBytesPerSecond", "transactions", "fees"}
Unsubscribed(cl) == [cl EXCEPT !.wants = FALSE] = NewSession
\* the keys of the subscription classes in resp are those of the flags of cl
WantedKeysMatch(resp, cl, e) ==
  /\ \A k \in StatsKeys : ObjHas(resp, k) <=> cl.want["stats"]
  /\ ObjHas(resp, "da") => cl.want["stats"] /\ HasPreviousTime(e)
  /\ ObjHas(resp, "mempool-blocks") <=> cl.want["mempool-blocks"]
\* C25: on a mempool delta the message for an open client holds mempoolInfo,
\* vBytesPerSecond, transactions and fees exactly when the client has
\* want-stats, holds da only when it has want-stats and the difficulty
\* adjustment has a previous time, and holds mempool-blocks exactly when it has
\* want-mempool-blocks; a client with one of the two flags is sent a message
\* when its callback ends, and a client with no flag and no tracking slot is
\* sent none.
C25_DeltaFanOut ==
  [][DeltaStep =>
       \A c \in ClientIds :
         /\ \A i \in 1..Len(sent'[c]) : WantedKeysMatch(sent'[c][i].resp, clients[c], env')
         /\ RanToEnd(c) /\ (clients[c].want["stats"] \/ clients[c].want["mempool-blocks"])
              => sent'[c] # << >>
         /\ Unsubscribed(clients[c]) => sent'[c] = << >>]_vars
\* a client with want-stats alone has been sent the four keys and da, the
\* difficulty adjustment having a previous time
C25_Witness ==
  \E c \in ClientIds :
    /\ clients[c].want["stats"] /\ ~clients[c].want["mempool-blocks"]
    /\ HasPreviousTime(env)
    /\ \E i \in 1..Len(sent[c]) :
         /\ \A k \in StatsKeys \cup {"da"} : ObjHas(sent[c][i].resp, k)
         /\ ~ObjHas(sent[c][i].resp, "mempool-blocks")
\* a client with want-stats has been sent the four keys without da
C25_NoPreviousTime ==
  \E c \in ClientIds :
    /\ clients[c].want["stats"] /\ ~HasPreviousTime(env)
    /\ \E i \in 1..Len(sent[c]) :
         /\ \A k \in StatsKeys : ObjHas(sent[c][i].resp, k)
         /\ ~ObjHas(sent[c][i].resp, "da")
\* a mempool delta has run the callback of a client with no flag and no slot
\* to its end
C25_Unsubscribed ==
  \E c \in ClientIds :
    /\ Unsubscribed(clients[c]) /\ clients[c].readyState = "OPEN"
    /\ env.mempool # {} /\ handlers = {} /\ loops = {} /\ sent[c] = << >>

\* newTransactions of the $handleMempoolChange the step belongs to
AddedNow ==
  IF nextEv' # nextEv THEN env'.mempool \ env.mempool
  ELSE IF \E t \in handlers \ handlers' : t.kind = "mempool"
  THEN UNION {NamesOf(t.added) : t \in handlers \ handlers'}
  ELSE UNION {NamesOf(t.d.added) : t \in loops \ loops'}
\* what JSON.stringify gives for { 0: { vin: 0, txid: the txid of n } }
SpentBy(n) ==
  Stringify(JObj(<< <<"0", JObj(<< <<"vin", JNum(0)>>, <<"txid", JStr(TxidOf(n))>> >>)>> >>))
\* C26: on a mempool delta an open client with trackTx = T is sent utxoSpent
\* exactly when a transaction of the added set has an input that spends an
\* output of T, and the payload maps the spent output index to the index of
\* the spending input and the txid of a spending transaction of the added set.
C26_UtxoSpent ==
  [][DeltaStep =>
       \A c \in ClientIds :
         /\ \A i \in 1..Len(sent'[c]) :
              /\ ObjHas(sent'[c][i].resp, "utxoSpent")
                   <=> clients[c].trackTx # Null
                       /\ \E n \in AddedNow : VinTxid(n) = clients[c].trackTx
              /\ ObjHas(sent'[c][i].resp, "utxoSpent")
                   => \E n \in AddedNow :
                        /\ VinTxid(n) = clients[c].trackTx
                        /\ ObjGet(sent'[c][i].resp, "utxoSpent") = SpentBy(n)
         /\ RanToEnd(c) /\ clients[c].trackTx # Null
              /\ (\E n \in AddedNow : VinTxid(n) = clients[c].trackTx)
              => sent'[c] # << >>]_vars
\* a client that tracks P has been told that B spends output 0 of P
C26_Witness ==
  \E c \in ClientIds :
    /\ clients[c].trackTx = TxidP
    /\ \E i \in 1..Len(sent[c]) :
         /\ ObjHas(sent[c][i].resp, "utxoSpent")
         /\ ObjGet(sent[c][i].resp, "utxoSpent") = SpentBy("B")
\* a client that tracks A has been sent a message for a delta that adds B,
\* without utxoSpent
C26_NotSpent ==
  \E c \in ClientIds :
    /\ clients[c].trackTx = TxidA /\ "B" \in env.mempool
    /\ \E i \in 1..Len(sent[c]) :
         /\ ObjHas(sent[c][i].resp, "transactions")
         /\ ~ObjHas(sent[c][i].resp, "utxoSpent")

\* ---------------------------------------------------------------- new block
\* the handlers of new blocks that have composed and sent their messages in
\* the step: they stand at the await of the statistics run that ends them
BlocksSentNow == {t \in handlers' \ handlers : t.kind = "block" /\ t.pc = "stats2"}
\* the same in a state: the handlers of the messages of event ev
BlockOf(ev) == {t \in handlers : t.kind = "block" /\ t.pc = "stats2" /\ t.ev = ev}
\* txid is among the txids of the block of t
MinedIn(t, txid) == \E i \in 1..Len(t.mined) : TxidOf(t.mined[i]) = txid
\* txid is in the mempool e reports, with a position
PositionedIn(e, txid) == \E n \in e.mempool : TxidOf(n) = txid /\ n \in e.template
\* C27: on a new block an open client with trackTx = T is sent txConfirmed
\* for T when T is among the txids of the block; otherwise txPosition for T
\* when T is in the mempool with a position; never both, and neither when T
\* is neither mined nor positioned.
C27_ConfirmedOrPosition ==
  [][\A t \in BlocksSentNow :
       \A c \in ClientIds :
         LET T == clients[c].trackTx
             has(k) == \E i \in 1..Len(sent'[c]) : ObjHas(sent'[c][i].resp, k)
             val(k) == {ObjGet(sent'[c][i].resp, k) :
                          i \in {j \in 1..Len(sent'[c]) : ObjHas(sent'[c][j].resp, k)}}
         IN  clients[c].readyState = "OPEN" =>
               /\ has("txConfirmed") <=> T # Null /\ MinedIn(t, T)
               /\ has("txPosition") <=> T # Null /\ ~MinedIn(t, T) /\ PositionedIn(env', T)
               /\ ~(has("txConfirmed") /\ has("txPosition"))
               /\ val("txConfirmed") \subseteq {Stringify(JStr(T))}
               /\ \A v \in val("txPosition") :
                    \E n \in env'.mempool :
                      v = Stringify(JObj(<< <<"txid", JStr(T)>>,
                                            <<"position", PositionJs(n)>> >>))]_vars
\* the block that holds A has been announced to a client that tracks A
C27_Witness ==
  \E c \in ClientIds : \E i \in 1..Len(sent[c]) :
    /\ clients[c].trackTx = TxidA
    /\ \E t \in BlockOf(sent[c][i].ev) : MinedIn(t, TxidA)
    /\ ObjGet(sent[c][i].resp, "txConfirmed") = Stringify(JStr(TxidA))
\* a block without A has been announced to a client that tracks A, A being
\* in the mempool with a position
C27_StillInMempool ==
  \E c \in ClientIds : \E i \in 1..Len(sent[c]) :
    /\ clients[c].trackTx = TxidA
    /\ \E t \in BlockOf(sent[c][i].ev) : ~MinedIn(t, TxidA)
    /\ ObjHas(sent[c][i].resp, "txPosition") /\ ~ObjHas(sent[c][i].resp, "txConfirmed")
\* a block without A has been announced to a client that tracks A, A not
\* being in the mempool
C27_Neither ==
  \E c \in ClientIds : \E i \in 1..Len(sent[c]) :
    /\ clients[c].trackTx = TxidA /\ "A" \notin env.mempool
    /\ \E t \in BlockOf(sent[c][i].ev) : ~MinedIn(t, TxidA)
    /\ ~ObjHas(sent[c][i].resp, "txPosition") /\ ~ObjHas(sent[c][i].resp, "txConfirmed")

\* the transactions of the block of t that touch the key, in block order
Touching(t, key) == SelectSeq(t.mined, LAMBDA n : key \in TxKeys(n))
\* those that carry the asset
Carrying(t, asset) == SelectSeq(t.mined, LAMBDA n : asset \in TxAssets(n))
\* JSON.stringify of the transactions txs, each with status { confirmed: true,
\* block_height, block_hash, block_time } of the block of t
Stamped(t, txs) ==
  Stringify(JArr([i \in 1..Len(txs) |->
    JObj(<< <<"txid", JStr(TxidOf(txs[i]))>>,
            <<"status", JObj(<< <<"confirmed", JBool(TRUE)>>,
                                <<"block_height", JNum(t.block.height)>>,
                                <<"block_hash", JNum(t.block.id)>>,
                                <<"block_time", JNum(t.block.timestamp)>> >>)>> >>)]))
\* the client is sent block-transactions exactly when txs is not empty, and
\* then with txs stamped
BlockTransactionsAre(t, c, txs) ==
  /\ txs # << >> => /\ Len(sent'[c]) = 1
                    /\ ObjHas(sent'[c][1].resp, "block-transactions")
                    /\ ObjGet(sent'[c][1].resp, "block-transactions") = Stamped(t, txs)
  /\ txs = << >> => \A i \in 1..Len(sent'[c]) : ~ObjHas(sent'[c][i].resp, "block-transactions")
C28_InputTouches ==
  \E c \in ClientIds : \E i \in 1..Len(sent[c]) :
    /\ clients[c].trackAddress = Addr3
    /\ \E t \in BlockOf(sent[c][i].ev) :
         ObjGet(sent[c][i].resp, "block-transactions") = Stamped(t, <<"B">>)
\* a block that holds B has been announced to a client that tracks Addr1 and
\* the asset B issues: block-transactions holds B, which does not touch Addr1
C28_AssetInstead ==
  \E c \in ClientIds : \E i \in 1..Len(sent[c]) :
    /\ clients[c].trackAddress = Addr1 /\ clients[c].trackAsset = AssetId
    /\ \E t \in BlockOf(sent[c][i].ev) :
         /\ Touching(t, Addr1) = << >>
         /\ ObjHas(sent[c][i].resp, "block-transactions")
         /\ ObjGet(sent[c][i].resp, "block-transactions") = Stamped(t, <<"B">>)

\* the transactions of projected block index as e reports them, << >> when
\* there is no such projected block
ProjectedTxs(e, index) ==
  IF e.template # {} /\ index = 0 THEN SeqOfNames(e.template) ELSE << >>
\* JSON of { index, delta } and of { index, blockTransactions }
DeltaForm(e, index) ==
  Stringify(JObj(<< <<"index", JNum(index)>>, <<"delta", DeltaJs(e)>> >>))
FullForm(e, index) ==
  Stringify(JObj(<< <<"index", JNum(index)>>,
                    <<"blockTransactions",
                      JArr([i \in 1..Len(ProjectedTxs(e, index)) |->
                              JArr(<<JStr(TxidOf(ProjectedTxs(e, index)[i]))>>)])>> >>))
\* the client is sent projected-block-transactions for index: the delta form
\* when the delta adds at most half of what the projected block holds, the
\* full list otherwise
ProjectedSent(c, e, index) ==
  /\ Len(sent'[c]) = 1
  /\ ObjHas(sent'[c][1].resp, "projected-block-transactions")
  /\ ObjGet(sent'[c][1].resp, "projected-block-transactions") =
       IF 2 * Cardinality(e.delta.added) <= Len(ProjectedTxs(e, index))
       THEN DeltaForm(e, index) ELSE FullForm(e, index)
\* C29 as stated: on a new block, the mempool engine being in sync, every open
\* client with trackMempoolBlock = i is sent projected-block-transactions for
\* i, in the delta form when the delta adds at most half of the transactions
\* of the projected block, as the full compressed list otherwise.
C29_AsStated ==
  [][\A t \in BlocksSentNow :
       \A c \in ClientIds :
         clients[c].readyState = "OPEN" /\ clients[c].trackMempoolBlock # Null
           /\ isInSync(env')
           => ProjectedSent(c, env', clients[c].trackMempoolBlock[1])]_vars
\* C29: the same when projected block i holds at least one transaction; when
\* it holds none, or there is no projected block i, the client is sent no
\* projected-block-transactions for the block.
C29_WhenBlockProjected ==
  [][\A t \in BlocksSentNow :
       \A c \in ClientIds :
         clients[c].readyState = "OPEN" /\ clients[c].trackMempoolBlock # Null
           /\ isInSync(env')
           => IF ProjectedTxs(env', clients[c].trackMempoolBlock[1]) # << >>
              THEN ProjectedSent(c, env', clients[c].trackMempoolBlock[1])
              ELSE \A i \in 1..Len(sent'[c]) :
                     ~ObjHas(sent'[c][i].resp, "projected-block-transactions")]_vars
\* a new block has been announced to a client that tracks projected block 0
\* with the delta form, the template update having added nothing to it
C29_Witness ==
  \E c \in ClientIds : \E i \in 1..Len(sent[c]) :
    /\ clients[c].trackMempoolBlock = <<0>>
    /\ BlockOf(sent[c][i].ev) # {}
    /\ env.template # {} /\ env.delta.added = {}
    /\ ObjGet(sent[c][i].resp, "projected-block-transactions") = DeltaForm(env, 0)
\* the same with the full list, the template update having added every
\* transaction the projected block holds
C29_FullList ==
  \E c \in ClientIds : \E i \in 1..Len(sent[c]) :
    /\ clients[c].trackMempoolBlock = <<0>>
    /\ BlockOf(sent[c][i].ev) # {}
    /\ env.template # {} /\ env.delta.added = env.template
    /\ ObjGet(sent[c][i].resp, "projected-block-transactions") = FullForm(env, 0)
\* a new block has been announced while the mempool is empty: the client that
\* tracks projected block 0 is sent a message without projected-block-transactions
C29_NothingProjected ==
  \E c \in ClientIds : \E i \in 1..Len(sent[c]) :
    /\ clients[c].trackMempoolBlock = <<0>>
    /\ BlockOf(sent[c][i].ev) # {}
    /\ env.template = {} /\ env.inSync
    /\ ~ObjHas(sent[c][i].resp, "projected-block-transactions")

\* -------------------------------------------------------------------- reorg
\* the step is handleReorg: an event arrives and the block store reports
\* another tip
ReorgStep == nextEv' # nextEv /\ env'.chain # env.chain
\* C30: on a reorg S.blocks becomes the chain the block store reports and S.da
\* the difficulty adjustment (no da when it has no previous time); each open
\* client is sent one message that holds blocks exactly when it has
\* want-blocks and da exactly when it has want-stats, with the values S holds
\* after the refresh and no other key; a client with neither flag is sent
\* nothing.
C30_ReorgFanOut ==
  [][ReorgStep =>
       /\ ObjHas(socketData', "blocks")
       /\ ObjGet(socketData', "blocks") = Stringify(BlocksJs(env'.chain))
       /\ ObjHas(socketData', "da") <=> env'.daPreviousTime # 0
       /\ ObjHas(socketData', "da") => ObjGet(socketData', "da") = Stringify(DaJs(env'))
       /\ \A c \in ClientIds :
            LET cl == clients[c]
                keys == {k \in {"blocks"} : cl.want["blocks"]}
                          \cup {k \in {"da"} : cl.want["stats"]}
            IN  cl.readyState = "OPEN" =>
                  IF keys = {} THEN sent'[c] = << >>
                  ELSE /\ Len(sent'[c]) = 1
                       /\ DataKeys(sent'[c][1].resp) = keys
                       /\ \A k \in keys :
                            ObjGet(sent'[c][1].resp, k) = ObjGet(socketData', k)]_vars
\* after a reorg a client with want-blocks and want-stats has been sent the
\* chain with the new tip and the difficulty adjustment, as S holds them
C30_Witness ==
  \E c \in ClientIds : \E i \in 1..Len(sent[c]) :
    /\ clients[c].want["blocks"] /\ clients[c].want["stats"]
    /\ env.chain # << >> /\ env.chain[Len(env.chain)].id = 1
    /\ DataKeys(sent[c][i].resp) = {"blocks", "da"}
    /\ ObjGet(sent[c][i].resp, "blocks") = Stringify(BlocksJs(env.chain))
    /\ ObjGet(sent[c][i].resp, "blocks") = ObjGet(socketData, "blocks")
    /\ ObjGet(sent[c][i].resp, "da") = ObjGet(socketData, "da")
\* after a reorg a client with neither flag has been sent nothing
C30_NeitherFlag ==
  \E c \in ClientIds :
    /\ ~clients[c].want["blocks"] /\ ~clients[c].want["stats"]
    /\ clients[c].readyState = "OPEN"
    /\ env.chain # << >> /\ env.chain[Len(env.chain)].id = 1
    /\ lastWrite = nextEv - 1 /\ handlers = {} /\ loops = {}
    /\ sent[c] = << >>

\* ------------------------------------------------------------ simple events
\* the step is one of handleNewDonation, handleLoadingChanged,
\* handleNewConversionRates and handleNewStatistic: an event arrives, no
\* handler is suspended by it, and neither the mempool nor the chain moves
SimpleStep ==
  /\ nextEv' # nextEv /\ handlers' = handlers
  /\ env'.mempool = env.mempool /\ env'.chain = env.chain
\* JSON.stringify of what the collaborators report in e for a field of S
ReportedField(e, k) ==
  IF k = "loadingIndicators"
  THEN Stringify(IF e.loadingIndicators = 0 THEN JObj(<< >>)
                 ELSE JObj(<< <<"mempool", JNum(e.loadingIndicators)>> >>))
  ELSE Stringify(JObj(<< <<"USD", JNum(e.prices)>> >>))
\* the one message of the step for client c has the key k alone, with value v
OnlyMessage(c, k, v) ==
  /\ Len(sent'[c]) = 1
  /\ DataKeys(sent'[c][1].resp) = {k}
  /\ ObjGet(sent'[c][1].resp, k) = v
\* C31: a loading-indicator change and a price change put what the
\* collaborator reports in the matching field of S, leave the other fields,
\* and are sent to every open client whatever its flags and slots; a
\* statistics tick and a donation confirmation leave S and initBlob as they
\* were, the first is sent only to clients with want-live-2h-chart, the second
\* only to clients whose trackDonation is the confirmed id.
C31_SimpleEvents ==
  [][SimpleStep =>
       IF lastWrite' = nextEv \/ socketData' # socketData
       THEN \E k \in {"loadingIndicators", "conversions"} :
              /\ env'.loadingIndicators # env.loadingIndicators => k = "loadingIndicators"
              /\ env'.prices # env.prices => k = "conversions"
              /\ ObjHas(socketData', k)
              /\ ObjGet(socketData', k) = ReportedField(env', k)
              /\ \A j \in (DataKeys(socketData) \cup DataKeys(socketData')) \ {k} :
                   /\ ObjHas(socketData, j) /\ ObjHas(socketData', j)
                   /\ ObjGet(socketData', j) = ObjGet(socketData, j)
              /\ \A c \in ClientIds :
                   clients[c].readyState = "OPEN" => OnlyMessage(c, k, ReportedField(env', k))
       ELSE /\ serializedInitData' = serializedInitData
            /\ \A c \in ClientIds : \A i \in 1..Len(sent'[c]) :
                 \/ /\ DataKeys(sent'[c][i].resp) = {"live-2h-chart"}
                    /\ clients[c].want["live-2h-chart"]
                 \/ /\ DataKeys(sent'[c][i].resp) = {"donationConfirmed"}
                    /\ ObjGet(sent'[c][i].resp, "donationConfirmed") = "true"
                    /\ clients[c].trackDonation # Null
                    /\ clients[c].trackDonation = env'.donation]_vars
\* a client with no flag and no slot has been sent the loading indicators S
\* now holds
C31_Witness ==
  \E c \in ClientIds :
    /\ Unsubscribed(clients[c]) /\ Len(sent[c]) = 1
    /\ DataKeys(sent[c][1].resp) = {"loadingIndicators"}
    /\ env.loadingIndicators # 0
    /\ ObjGet(sent[c][1].resp, "loadingIndicators") = ObjGet(socketData, "loadingIndicators")
\* a client with want-live-2h-chart has been sent a statistics tick, S empty
C31_Statistic ==
  \E c \in ClientIds :
    /\ clients[c].want["live-2h-chart"] /\ Len(sent[c]) = 1
    /\ DataKeys(sent[c][1].resp) = {"live-2h-chart"} /\ socketData = << >>
\* a client that tracks the donation has been sent its confirmation
C31_Donation ==
  \E c \in ClientIds :
    /\ clients[c].trackDonation = DonationId /\ env.donation = DonationId
    /\ Len(sent[c]) = 1 /\ DataKeys(sent[c][1].resp) = {"donationConfirmed"}
\* another donation has been confirmed and the client that tracks a donation
\* has been sent nothing
C31_OtherDonation ==
  \E c \in ClientIds :
    /\ clients[c].trackDonation = DonationId /\ env.donation = OtherDonationId
    /\ clients[c].readyState = "OPEN" /\ nextEv = 2 /\ sent[c] = << >>

\* ------------------------------------------------------- server not bound
\* C32: while the server is not bound no event handler does anything but
\* throw: a step taken before setWebsocketServer handles no event, sends
\* nothing and leaves the collaborators as they were, and a step in which an
\* event handler throws leaves S, initBlob, the sessions and the collaborators
\* unchanged, for each of the seven event handlers.
C32_UnboundThrows ==
  [][/\ ~wss => /\ nextEv' = nextEv /\ env' = env /\ sent' = NoOutput
                /\ handlers' = handlers /\ loops' = loops
     /\ thrown' # "" =>
          /\ ~wss /\ thrown' \in EventHandlers
          /\ socketData' = socketData /\ serializedInitData' = serializedInitData
          /\ env' = env /\ clients' = clients /\ extraInitProperties' = extraInitProperties
          /\ sent' = NoOutput /\ nextEv' = nextEv]_vars
\* $handleMempoolChange has thrown while S held the extra init data
C32_Witness ==
  /\ ~wss /\ thrown = "$handleMempoolChange"
  /\ socketData # << >> /\ sent = NoOutput /\ nextEv = 1

\* ---------------------------------------------------------------- track-rbf
\* deletedTransactions of the $handleMempoolChange the step belongs to
DeletedNow ==
  IF nextEv' # nextEv THEN env.mempool \ env'.mempool
  ELSE IF \E t \in handlers \ handlers' : t.kind = "mempool"
  THEN UNION {NamesOf(t.deleted) : t \in handlers \ handlers'}
  ELSE UNION {NamesOf(t.d.deleted) : t \in loops \ loops'}
\* the replacements the RBF cache knew when that handler read it
ReplacedByNow ==
  IF DeltaBodyStep THEN env'.replacedBy
  ELSE (CHOOSE t \in loops \ loops' : TRUE).d.e.replacedBy
\* JSON.stringify of the trees of the replacements rb: one per replaced
\* transaction; none of them is a full-RBF tree
NarrowTrees(rb) ==
  Stringify(JArr([i \in 1..Len(SeqOfNames(DOMAIN rb)) |->
    JObj(<< <<"tx", JStr(TxidOf(rb[SeqOfNames(DOMAIN rb)[i]]))>>,
            <<"replaces", JStr(TxidOf(SeqOfNames(DOMAIN rb)[i]))>> >>)]))
FullRbfTrees == "[]"
TreesFor(mode, rb) == IF mode = "fullRbf" THEN FullRbfTrees ELSE NarrowTrees(rb)
\* C33: after every step trackRbf is off, all or fullRbf; a track-rbf frame
\* with all or fullRbf stores the value and is answered with rbfLatest, the
\* trees of the RBF cache (the full-RBF ones for fullRbf); and a message of a
\* mempool delta holds rbfLatest only for a client whose trackRbf is all or
\* fullRbf when the delta replaced a transaction, with the trees of all for
\* all and the full-RBF trees for fullRbf.
C33_TrackRbf ==
  [][/\ \A c \in ClientIds :
          clients'[c].readyState # "NONE" => clients'[c].trackRbf \in {"off", "all", "fullRbf"}
     /\ \A h \in FrameSteps' :
          (h.began /\ h.ended /\ Has(h.frame, "track-rbf")
             /\ h.frame["track-rbf"] \in {"all", "fullRbf"}) =>
            /\ clients'[h.c].trackRbf = h.frame["track-rbf"]
            /\ ObjHas(StepResponse(h.c)', "rbfLatest")
            /\ ObjGet(StepResponse(h.c)', "rbfLatest")
                 = TreesFor(h.frame["track-rbf"], env'.replacedBy)
     /\ DeltaStep =>
          \A c \in ClientIds : \A i \in 1..Len(sent'[c]) :
            ObjHas(sent'[c][i].resp, "rbfLatest") =>
              /\ clients[c].trackRbf \in {"all", "fullRbf"}
              /\ AddedNow # {} /\ DeletedNow # {}
              /\ ObjGet(sent'[c][i].resp, "rbfLatest")
                   = TreesFor(clients[c].trackRbf, ReplacedByNow)]_vars
\* a client with trackRbf = all has been sent the tree of B replacing A
C33_Witness ==
  \E c \in ClientIds : \E i \in 1..Len(sent[c]) :
    /\ clients[c].trackRbf = "all" /\ sent[c][i].kind = "event"
    /\ DOMAIN env.replacedBy = {"A"}
    /\ ObjHas(sent[c][i].resp, "rbfLatest")
    /\ ObjGet(sent[c][i].resp, "rbfLatest") = NarrowTrees("A" :> "B")
\* a client with trackRbf = fullRbf has been sent the full-RBF trees for the
\* same delta
C33_FullRbf ==
  \E c \in ClientIds : \E i \in 1..Len(sent[c]) :
    /\ clients[c].trackRbf = "fullRbf" /\ sent[c][i].kind = "event"
    /\ DOMAIN env.replacedBy = {"A"}
    /\ ObjHas(sent[c][i].resp, "rbfLatest")
    /\ ObjGet(sent[c][i].resp, "rbfLatest") = FullRbfTrees
\* a track-rbf frame with another value has turned the slot off
C33_TurnedOff ==
  \E h \in FrameSteps :
    /\ h.began /\ h.ended /\ Has(h.frame, "track-rbf") /\ h.frame["track-rbf"] = "bogus"
    /\ h.before.trackRbf = "all" /\ clients[h.c].trackRbf = "off"
    /\ ~ObjHas(StepResponse(h.c), "rbfLatest")

\* --------------------------------------------------------- unrecognized keys
\* the keys the message handler reads, and for each tracking slot the key
\* that sets it
RecognizedKeys ==
  {"action", "data", "refresh-blocks", "watch-mempool", "track-tx", "track-address",
   "track-addresses", "track-scriptpubkeys", "track-asset", "track-mempool-block",
   "track-rbf", "track-rbf-summary", "track-donation", "track-bisq-market"}
SlotKey ==
  [trackTx |-> "track-tx", trackMempoolTx |-> "track-tx",
   trackAddress |-> "track-address", trackAddresses |-> "track-addresses",
   trackScriptpubkeys |-> "track-scriptpubkeys", trackAsset |-> "track-asset",
   trackMempoolBlock |-> "track-mempool-block", trackRbf |-> "track-rbf",
   trackRbfSummary |-> "track-rbf-summary", trackDonation |-> "track-donation",
   trackBisqMarket |-> "track-bisq-market"]
\* a JSON object none of whose keys the handler reads
Unrecognized(f) == ~Has(f, "malformed") /\ DOMAIN f \cap RecognizedKeys = {}
\* C34: a frame none of whose keys the handler knows leaves the session of the
\* client, S and initBlob as they were, is answered with nothing and leaves
\* the socket open; and a frame leaves every tracking slot whose key it does
\* not carry, and the subscription flags when it carries no action, as they
\* were, in every step of its handler.
C34_UnknownKeysIgnored ==
  [][\A h \in FrameSteps' :
       /\ \A slot \in DOMAIN SlotKey :
            ~Has(h.frame, SlotKey[slot]) => clients'[h.c][slot] = clients[h.c][slot]
       /\ ~Has(h.frame, "action") =>
            clients'[h.c].want = clients[h.c].want /\ clients'[h.c].wants = clients[h.c].wants
       /\ Unrecognized(h.frame) =>
            /\ h.began /\ h.ended
            /\ clients'[h.c] = h.before /\ clients'[h.c].readyState = "OPEN"
            /\ socketData' = socketData /\ serializedInitData' = serializedInitData
            /\ sent'[h.c] = << >>]_vars
\* a frame with unknown keys has been handled for a client with flags and
\* every tracking slot set, after a frame that set a slot
C34_Witness ==
  \E h \in FrameSteps :
    /\ Unrecognized(h.frame) /\ h.ended /\ nFrames = 2
    /\ clients[h.c] = h.before /\ clients[h.c].trackAsset = AssetId
    /\ clients[h.c].trackRbf # "off" /\ clients[h.c].want["stats"]
    /\ clients[h.c].trackAddress = Addr2
    /\ sent[h.c] = << >>
\* a frame with track-tx alone has changed trackTx over a session whose other
\* slots are set, and they are as they were
C34_OtherSlotsKept ==
  \E h \in FrameSteps :
    /\ DOMAIN h.frame = {"track-tx"} /\ h.ended
    /\ h.before.trackTx = TxidA /\ clients[h.c].trackTx = TxidB
    /\ clients[h.c].trackAsset = AssetId /\ clients[h.c].trackDonation = DonationId

\* --------------------------------------------------------------------- ping
\* C35: a frame with action ping is answered with one message whose pong key
\* is true, and with no other key when the frame has no other key; a frame
\* with another action or none is answered without pong.
C35_PingPong ==
  \A h \in FrameSteps :
    h.ended =>
      IF Has(h.frame, "action") /\ h.frame["action"] = "ping"
      THEN /\ Len(sent[h.c]) = 1 /\ sent[h.c][1].kind = "response"
           /\ ObjHas(StepResponse(h.c), "pong")
           /\ ObjGet(StepResponse(h.c), "pong") = "true"
           /\ DOMAIN h.frame = {"action"} => DataKeys(StepResponse(h.c)) = {"pong"}
      ELSE ~ObjHas(StepResponse(h.c), "pong")
\* a ping has been answered with {"pong": true} for a client with flags and
\* every slot set
C35_Witness ==
  \E h \in FrameSteps :
    /\ h.ended /\ h.frame = [action |-> "ping"]
    /\ clients[h.c].want["stats"] /\ clients[h.c].trackTx = TxidA
    /\ serializeResponse(StepResponse(h.c)) = "{\"pong\": true}"
\* a ping that also sets track-rbf has been answered with pong and rbfLatest
C35_WithAnotherKey ==
  \E h \in FrameSteps :
    /\ h.ended /\ DOMAIN h.frame = {"action", "track-rbf"}
    /\ DataKeys(StepResponse(h.c)) = {"pong", "rbfLatest"}

\* ------------------------------------------------- watching for a transaction
\* the last step took from client c a frame with track-tx naming n and
\* watch-mempool, while neither the mempool nor the RBF cache knew n
AsksToWatch(c, n) ==
  \E h \in FrameSteps :
    h.c = c /\ WatchesUnknown(h) /\ h.frame["track-tx"] = TxidOf(n)
\* the last step sent client c a message whose tx is n
TxReceived(c, n) ==
  \E i \in 1..Len(sent[c]) :
    /\ sent[c][i].open
    /\ ObjHas(sent[c][i].resp, "tx")
    /\ ObjGet(sent[c][i].resp, "tx")
         \in {Stringify(FullTxJs(TxidOf(n))), Stringify(TxJs(env, n))}
\* C36 as stated: when a client has sent a valid track-tx T with watch-mempool
\* while T was unknown, and a mempool delta adds T at any time after the frame
\* was received (the mempool holds T from the delta on, which the handler goes
\* on to process), the client is in the end sent a tx message for T.
C36_EventuallyTx ==
  \A c \in ClientIds, n \in TxNames :
    [](AsksToWatch(c, n) => ((<>(n \in env.mempool)) => <>TxReceived(c, n)))
\* the only frame of the client has ended after a failed lookup with T in
\* trackMempoolTx, while the mempool already holds T and the delta that added
\* it has run to its end
C36_Witness ==
  \E h \in FrameSteps, n \in TxNames :
    /\ h.ended /\ ~h.began /\ nFrames = 1
    /\ h.frame["track-tx"] = TxidOf(n) /\ n \in env.mempool
    /\ clients[h.c].trackMempoolTx = TxidOf(n)
    /\ ~TxReceived(h.c, n)
    /\ handlers = {} /\ loops = {} /\ frames = {}
\* the steps the fairness of SpecWatch is about are the resumptions
SettlesAreResumes ==
  [][/\ FrameSettles <=> \E t \in frames, ok \in BOOLEAN : ResumeMessage(t, ok)
     /\ HandlerSettles <=> \E t \in handlers : ResumeMempoolChange(t)
     /\ LoopSettles <=> \E t \in loops, ok \in BOOLEAN : ResumeClient(t, ok)]_vars
\* under that fairness no task stays suspended for ever
EveryAwaitSettles == []<>(frames = {} /\ handlers = {} /\ loops = {})

\* ------------------------------------------ vBytesPerSecond on a new block
\* the vBytesPerSecond values the messages of the step carry for client c
VBytesSentNow(c) ==
  {ObjGet(sent'[c][i].resp, "vBytesPerSecond") :
     i \in {j \in 1..Len(sent'[c]) : ObjHas(sent'[c][j].resp, "vBytesPerSecond")}}
\* C37 as stated: on a new block the vBytesPerSecond sent to an open want-stats
\* client is the value the mempool engine reports while the block is handled,
\* never a value serialized during an earlier event, so that it equals
\* S.vBytesPerSecond only when S holds that same reading.
C37_FreshReading ==
  [][\A t \in BlocksSentNow :
       \A c \in ClientIds :
         (clients[c].readyState = "OPEN" /\ clients[c].want["stats"])
         => /\ VBytesSentNow(c) = {Stringify(VBytesPerSecondJs(env'))}
            /\ ObjGet(socketData', "vBytesPerSecond") \in VBytesSentNow(c)
               => ObjGet(socketData', "vBytesPerSecond")
                    = Stringify(VBytesPerSecondJs(env'))]_vars
\* a new block has been announced to a want-stats client with the
\* vBytesPerSecond an earlier mempool change left in S, while the engine
\* reports another value
C37_Witness ==
  \E c \in ClientIds : \E i \in 1..Len(sent[c]) :
    /\ clients[c].want["stats"]
    /\ BlockOf(sent[c][i].ev) # {}
    /\ ObjGet(sent[c][i].resp, "vBytesPerSecond") = ObjGet(socketData, "vBytesPerSecond")
    /\ ObjGet(socketData, "vBytesPerSecond") = "10"
    /\ VBytesPerSecondJs(env) = JNum(0)
\* with no vBytesPerSecond in S the block's message carries the engine's
\* reading
C37_FreshWhenUnseeded ==
  \E c \in ClientIds : \E i \in 1..Len(sent[c]) :
    /\ BlockOf(sent[c][i].ev) # {}
    /\ ~ObjHas(socketData, "vBytesPerSecond")
    /\ ObjGet(sent[c][i].resp, "vBytesPerSecond") = Stringify(VBytesPerSecondJs(env))

\* ------------------------------------------------- the snapshot's blocks
\* what JSON.stringify gives for every list of k blocks
SerializedChains(k) ==
  {Stringify(BlocksJs(bs)) :
     bs \in [1..k -> [height : 1..MaxBlocks, id : {0, 1}]]}
\* the number of blocks S.blocks holds is at most n
HoldsAtMost(sd, n) ==
  \E k \in 0..n : ObjGet(sd, "blocks") \in SerializedChains(k)
\* C38 as stated: in every reachable state S.blocks holds at most
\* INITIAL_BLOCKS_AMOUNT blocks, after any sequence of new blocks, reorgs and
\* init-triggered refreshes, whatever number of blocks the block store holds.
C38_BlocksCapped ==
  ObjHas(socketData, "blocks") => HoldsAtMost(socketData, INITIAL_BLOCKS_AMOUNT)
\* a reorg has written every block of a block store that holds more than
\* INITIAL_BLOCKS_AMOUNT blocks, and has sent them to a want-blocks client
C38_Witness ==
  /\ Len(env.chain) > INITIAL_BLOCKS_AMOUNT
  /\ ObjGet(socketData, "blocks") = Stringify(BlocksJs(env.chain))
  /\ \E c \in ClientIds : \E i \in 1..Len(sent[c]) :
       /\ sent[c][i].kind = "event"
       /\ ObjGet(sent[c][i].resp, "blocks") = ObjGet(socketData, "blocks")
\* an init frame has refreshed the snapshot with the last INITIAL_BLOCKS_AMOUNT
\* blocks of a block store that holds more
C38_InitRefreshCapped ==
  \E h \in FrameSteps :
    /\ Len(env.chain) > INITIAL_BLOCKS_AMOUNT /\ nextEv = 1
    /\ ObjGet(socketData, "blocks")
         = Stringify(BlocksJs(SubSeq(env.chain, Len(env.chain) - INITIAL_BLOCKS_AMOUNT + 1,
                                     Len(env.chain))))
\* a new block has been written with the blocks of the store cut to the last
\* INITIAL_BLOCKS_AMOUNT
C38_NewBlockCapped ==
  \E t \in handlers :
    /\ t.kind = "block" /\ t.pc = "stats2" /\ Len(env.chain) >= INITIAL_BLOCKS_AMOUNT
    /\ ObjGet(socketData, "blocks") = Stringify(BlocksJs(<<t.block>>))
\* the cap holds at every write but the reorg's
C38_CappedUnlessReorg ==
  [][(ObjHas(socketData', "blocks") /\ ~ReorgStep
      /\ (ObjHas(socketData, "blocks") => HoldsAtMost(socketData, INITIAL_BLOCKS_AMOUNT)))
     => HoldsAtMost(socketData', INITIAL_BLOCKS_AMOUNT)]_vars

\* ------------------------------------- removed transactions, plural trackers
\* the entries <<key as the client wrote it, key of the address cache>> of
\* the two plural slots
AddressEntriesOf(cl) == IF cl.trackAddresses = Null THEN << >> ELSE cl.trackAddresses[1]
SpkEntriesOf(cl) ==
  IF cl.trackScriptpubkeys = Null THEN << >>
  ELSE [i \in 1..Len(cl.trackScriptpubkeys[1]) |->
          <<cl.trackScriptpubkeys[1][i], cl.trackScriptpubkeys[1][i]>>]
\* the transactions of the set txs that touch the cache key
TouchedBy(txs, cacheKey) == SelectSeq(SeqOfNames(txs), LAMBDA n : cacheKey \in TxKeys(n))
\* the map a delta owes for `entries`: every entry that a transaction in
\* `owed` touches, with the added transactions that touch it under mempool
\* (enriched when the upstream lookup resolved) and the deleted ones under
\* removed; a callback serializes at its awaits, so the positions are those of
\* the transactions `placed` in a projected block at some moment of the delta
OwedMap(entries, owed, enriched, placed) ==
  LET es == SelectSeq(entries, LAMBDA en : TouchedBy(owed, en[2]) # << >>)
  IN  [i \in 1..Len(es) |->
         <<StrOf(es[i][1]),
           JObj(<< <<"mempool", JArr([j \in 1..Len(TouchedBy(AddedNow, es[i][2])) |->
                      IF enriched THEN FullTxJs(TxidOf(TouchedBy(AddedNow, es[i][2])[j]))
                      ELSE TxJs([template |-> placed], TouchedBy(AddedNow, es[i][2])[j])])>>,
                   <<"confirmed", JArr(<< >>)>>,
                   <<"removed", JArr([j \in 1..Len(TouchedBy(DeletedNow, es[i][2])) |->
                      TxJs([template |-> placed], TouchedBy(DeletedNow, es[i][2])[j])])>> >>)>>]
\* the messages of the step carry for client c, under key k, the map owed for
\* `entries`, or lack the key when the map is empty
SendsOwed(c, k, entries, owed) ==
  IF OwedMap(entries, owed, FALSE, {}) = << >>
  THEN \A i \in 1..Len(sent'[c]) : ~ObjHas(sent'[c][i].resp, k)
  ELSE \E i \in 1..Len(sent'[c]) :
         /\ ObjHas(sent'[c][i].resp, k)
         /\ ObjGet(sent'[c][i].resp, k)
              \in {Stringify(JObj(OwedMap(entries, owed, x[1], x[2]))) :
                     x \in BOOLEAN \X SUBSET TxNames}
\* C39 as stated: on a mempool delta an open client is sent, in
\* multi-address-transactions and multi-scriptpubkey-transactions, every
\* tracked entry that a transaction of the deleted set touches, with that
\* transaction in its removed list, also when no transaction of the added set
\* touches the entry.
C39_RemovedReported ==
  [][\A c \in ClientIds :
       (RanToEnd(c) /\ clients'[c].readyState = "OPEN")
       => /\ SendsOwed(c, "multi-address-transactions",
                       AddressEntriesOf(clients[c]), AddedNow \cup DeletedNow)
          /\ SendsOwed(c, "multi-scriptpubkey-transactions",
                       SpkEntriesOf(clients[c]), AddedNow \cup DeletedNow)]_vars
\* what the handler does: an entry is in the map when a transaction of the
\* added set touches it, and only then
PluralWhenAddedTouches ==
  [][\A c \in ClientIds :
       (RanToEnd(c) /\ clients'[c].readyState = "OPEN")
       => /\ SendsOwed(c, "multi-address-transactions",
                       AddressEntriesOf(clients[c]), AddedNow)
          /\ SendsOwed(c, "multi-scriptpubkey-transactions",
                       SpkEntriesOf(clients[c]), AddedNow)]_vars
\* two mempool deltas and nothing else have been handled, the second of which
\* deleted B and added nothing; the client tracks Addr2, which B pays, and has
\* been sent no multi-address-transactions
C39_Witness ==
  \E c \in ClientIds :
    /\ clients[c].readyState = "OPEN"
    /\ clients[c].trackAddresses = <<BuildAddressMap(<<Addr2>>, << >>)>>
    /\ env.chain = << >> /\ handlers = {} /\ loops = {} /\ nextEv = 3
    /\ "B" \notin env.mempool /\ env.delta = [added |-> {}, removed |-> {"B"}]
    /\ \A i \in 1..Len(sent[c]) : ~ObjHas(sent[c][i].resp, "multi-address-transactions")

\* ------------------------------------------------ events and the session
\* the step belongs to an event handler: it neither takes a frame nor resumes
\* a frame handler
EventStep == nFrames' = nFrames /\ frames' = frames
\* the txids of the added set of the delta the step belongs to
AddedTxids == {TxidOf(n) : n \in AddedNow}
\* the step sends client c projected-block-transactions in a message of an event
ProjectedByEvent(c) ==
  \E i \in 1..Len(sent'[c]) :
    sent'[c][i].kind = "event" /\ ObjHas(sent'[c][i].resp, "projected-block-transactions")
\* C40 as stated: a step of an event handler leaves every flag and every slot
\* of every client as it was, except that a step of a mempool delta may clear
\* trackMempoolTx when the txid it holds is in the added set of that delta;
\* trackTx stays set when txConfirmed is sent, and a client whose
\* trackMempoolBlock is null is sent no projected-block-transactions.
C40_SessionsKept ==
  [][EventStep =>
       \A c \in ClientIds :
         /\ \/ clients'[c] = clients[c]
            \/ /\ DeltaStep
               /\ clients[c].trackMempoolTx \in AddedTxids
               /\ clients'[c] = [clients[c] EXCEPT !.trackMempoolTx = Null]
         /\ clients[c].trackMempoolBlock = Null => ~ProjectedByEvent(c)]_vars
\* what holds of the handlers: an event step changes no field of a session
\* but trackMempoolTx, which only a step of a mempool delta clears; a client
\* without trackMempoolBlock is sent no projected-block-transactions
SessionsKeptButWatch ==
  [][EventStep =>
       \A c \in ClientIds :
         /\ \/ clients'[c] = clients[c]
            \/ /\ DeltaStep
               /\ clients'[c] = [clients[c] EXCEPT !.trackMempoolTx = Null]
         /\ clients[c].trackMempoolBlock = Null => ~ProjectedByEvent(c)]_vars
\* a block has confirmed the tracked transaction A and trackTx still holds A
C40_StillTracked ==
  \E c \in ClientIds : \E i \in 1..Len(sent[c]) :
    /\ ObjHas(sent[c][i].resp, "txConfirmed")
    /\ clients[c].trackTx = TxidA
\* a delta has sent tx for B, which it added, and has cleared trackMempoolTx
C40_WatchCleared ==
  \E c \in ClientIds : \E i \in 1..Len(sent[c]) :
    /\ sent[c][i].kind = "event" /\ ObjHas(sent[c][i].resp, "tx")
    /\ "B" \in env.mempool /\ nFrames = 0
    /\ clients[c].trackMempoolTx = Null /\ clients[c].trackTx = TxidA
\* a block has been announced to the client that tracks nothing, the
\* projected block holding a transaction
C40_NothingProjected ==
  \E c \in ClientIds : \E i \in 1..Len(sent[c]) :
    /\ clients[c].trackMempoolBlock = Null /\ env.template # {}
    /\ BlockOf(sent[c][i].ev) # {}
    /\ ~ObjHas(sent[c][i].resp, "projected-block-transactions")
\* the callback of a delta stands at the lookup of the transaction it found
\* for trackMempoolTx, and a frame has since put in the slot a txid the delta
\* did not add: the callback clears the slot when it resumes
C40_Witness ==
  \E t \in loops :
    /\ t.stage = "mempoolTx"
    /\ clients[t.c].readyState = "OPEN"
    /\ clients[t.c].trackMempoolTx # Null
    /\ clients[t.c].trackMempoolTx \notin {TxidOf(n) : n \in NamesOf(t.d.added)}
====
